---------------------------- MODULE Spec2Model ----------------------------
(***************************************************************************)
(* A model of the DDS texture codec of BeamNG-Livery-Maker (src/dds.js):   *)
(* DDSDecoder.parseHeader, DDSDecoder.decode, the five block decoders and  *)
(* DDSEncoder.encode.                                                      *)
(*                                                                         *)
(* A file is a sequence of bytes; byte offset o of the JavaScript          *)
(* ArrayBuffer is element o+1 of the sequence.  One call of decode is one  *)
(* behaviour: ParseHeader, then DecodeBegin (the DataView over the block   *)
(* stream and the output allocation), then one step per 4x4 tile of the    *)
(* nested y/x loops, then DecodeReturn.  A thrown exception ends the call  *)
(* in pc = "failed" with the exception in error.  One call of encode is    *)
(* EncodeHeader (the allocation and the header stores), then one step per  *)
(* run of the body of its loop, then EncodeReturn.                         *)
(*                                                                         *)
(* Numbers: TLC's integers are 32-bit signed, so the model's inputs keep   *)
(* every header field below 2^31, the 32-bit index word of a colour block  *)
(* is held as the int32 that JavaScript's >> operator converts it to, and  *)
(* the 48-bit BigInt index stream is held as its three 16-bit words.       *)
(***************************************************************************)
EXTENDS Integers, Sequences, FiniteSets, TLC

VARIABLES
    buffer,   \* the ArrayBuffer decode is given or encode builds, a sequence of bytes
    pc,       \* "parse", "begin", "tiles", "done", "failed"; "encode", "body", "encoded"
    header,   \* what parseHeader returned, or NoHeader
    error,    \* the exception thrown, or NoError
    result,   \* what decode returned, or NoResult
    x, y,     \* the tile loops' counters
    offset,   \* the block decoder's read offset, the encoder's write offset
    rgba,     \* the output Uint8ClampedArray, a function on 0..N-1
    wlog,     \* for each output byte, the stores made to it, in order
    oob,      \* the indices of stores made outside the output array
    reads,    \* the byte offsets of buffer read so far
    imageData, \* the ImageData encode is given, or NoImageData
    dataIndex, \* the counter i of the encoder's loop
    calls,     \* the number of codec calls made so far in a session
    given,     \* the input the running call was given
    memo,      \* the outcome of the first call made on each input
    caller,    \* the function of script.js that called decode
    alerted,   \* the message shown to the user by alert(), or NoAlert
    layers,        \* LiveryEditor.layers, bottom layer first
    activeLayerId, \* LiveryEditor.activeLayerId
    clipboard,     \* LiveryEditor.clipboard, NoLayer for null
    history,       \* LiveryEditor.history
    historyIndex,  \* LiveryEditor.historyIndex
    now,           \* the clock Date.now() reads
    ops            \* the number of layer operations made so far

\* the variables of a session of codec calls, of the import functions of
\* script.js, and of the editor
sessionVars == <<calls, given, memo>>
importVars == <<caller, alerted>>
editorVars == <<layers, activeLayerId, clipboard, history, historyIndex, now, ops>>

vars == <<buffer, pc, header, error, result, x, y, offset, rgba, wlog, oob, reads,
          imageData, dataIndex, sessionVars, importVars, editorVars>>

---------------------------------------------------------------------------
(* Constants of src/dds.js *)

DDS_MAGIC == 542327876          \* 0x20534444
DDSD_MIPMAPCOUNT == 131072      \* 0x20000
DDPF_FOURCC == 4

FOURCC_DXT1 == 827611204        \* 0x31545844
FOURCC_DXT3 == 861165636        \* 0x33545844
FOURCC_DXT5 == 894720068        \* 0x35545844
FOURCC_DX10 == 808540228        \* 0x30315844

DXGI_FORMAT_BC1_UNORM == 71
DXGI_FORMAT_BC1_UNORM_SRGB == 72
DXGI_FORMAT_BC2_UNORM == 74
DXGI_FORMAT_BC2_UNORM_SRGB == 75
DXGI_FORMAT_BC3_UNORM == 77
DXGI_FORMAT_BC3_UNORM_SRGB == 78
DXGI_FORMAT_BC4_UNORM == 80
DXGI_FORMAT_BC5_UNORM == 83
DXGI_FORMAT_BC7_UNORM == 98
DXGI_FORMAT_BC7_UNORM_SRGB == 99

HEADER_SIZE == 128              \* "Standard Header size"
DX10_DATA_OFFSET == 148         \* "128 (standard) + 20 (DX10)"

---------------------------------------------------------------------------
(* Bit operations on non-negative integers, as JavaScript computes them *)

RECURSIVE Pow2(_)
Pow2(n) == IF n = 0 THEN 1 ELSE 2 * Pow2(n - 1)

RECURSIVE BitAnd(_, _)
BitAnd(a, b) ==
    IF a = 0 \/ b = 0 THEN 0
    ELSE (a % 2) * (b % 2) + 2 * BitAnd(a \div 2, b \div 2)

\* a >> n and a << n on values that stay within 31 bits
Shr(a, n) == a \div Pow2(n)
Shl(a, n) == a * Pow2(n)

\* Max without the clamp: the second argument as it is
MaxUnclamped(a, b) == b

Max(a, b) == IF a >= b THEN a ELSE b

---------------------------------------------------------------------------
(* DataView reads.  A read past the end of the buffer throws a RangeError; *)
(* CanRead is the DataView's bounds check.                                 *)

CanRead(buf, off, n) == off >= 0 /\ off + n <= Len(buf)

getUint8(buf, off) == buf[off + 1]

\* getUint16(off, true): little-endian
getUint16(buf, off) == buf[off + 1] + 256 * buf[off + 2]

\* getUint32(off, true): little-endian; the inputs keep the top byte below 128
getUint32(buf, off) ==
    buf[off + 1] + 256 * buf[off + 2] + 65536 * buf[off + 3] + 16777216 * buf[off + 4]

\* ToInt32(getUint32(off, true)): the value the >> operator works on
getInt32(buf, off) ==
    buf[off + 1] + 256 * buf[off + 2] + 65536 * buf[off + 3]
      + 16777216 * (IF buf[off + 4] >= 128 THEN buf[off + 4] - 256 ELSE buf[off + 4])

Span(off, n) == off .. (off + n - 1)

---------------------------------------------------------------------------
(* Values *)

NoHeader == [width |-> 0, height |-> 0, format |-> "none", mipmapCount |-> 0, dataOffset |-> 0]
NoError == [name |-> "none", message |-> "", arg |-> 0]
NoResult == [returned |-> FALSE, width |-> 0, height |-> 0, data |-> << >>]
NoImageData == [width |-> 0, height |-> 0, data |-> << >>]

\* JavaScript's null, where an id is expected; ids are numbers
null == -1

\* no call made yet, no import under way, the editor as constructed
NoInput == [kind |-> "none", input |-> << >>]
NoSession == calls = 0 /\ given = NoInput /\ memo = << >>
NoAlert == [prefix |-> "", message |-> "", arg |-> 0]
NoImport == caller = "none" /\ alerted = NoAlert
NoLayer ==
    [id |-> null, type |-> "none", isBase |-> FALSE, locked |-> FALSE, closed |-> FALSE,
     mirrorOf |-> null, mirrorLayerId |-> null]
NoEditor ==
    /\ layers = << >>
    /\ activeLayerId = null
    /\ clipboard = NoLayer
    /\ history = << >>
    /\ historyIndex = -1
    /\ now = 0
    /\ ops = 0

RangeError == [name |-> "RangeError", message |-> "Offset is outside the bounds of the DataView", arg |-> 0]

MsgInvalidMagic == "Invalid DDS magic"
MsgNoFourCC == "Only Compressed DDS (FourCC) supported"
MsgBC7 == "Unsupported Texture Format.\n\nThe file uses BC7 compression, which browsers cannot read.\n\nPlease convert this skin to DXT5 (BC3) format using Paint.NET or Photoshop and upload it manually.\n\nSee the guide for more information."
MsgUnsupportedDxgi == "Unsupported DXGI Format: "
MsgUnsupportedFourCC == "Unsupported FourCC: "

\* new Error(message), the message's interpolated number kept apart in arg
Err(msg, a) == [name |-> "Error", message |-> msg, arg |-> a]

---------------------------------------------------------------------------
(* DDSDecoder.parseHeader *)

\* DxgiFormat with the BC2 and BC3 rows exchanged
DxgiFormatSwapped(dxgiFormat) ==
    IF dxgiFormat = DXGI_FORMAT_BC1_UNORM \/ dxgiFormat = DXGI_FORMAT_BC1_UNORM_SRGB THEN "DXT1"
    ELSE IF dxgiFormat = DXGI_FORMAT_BC2_UNORM \/ dxgiFormat = DXGI_FORMAT_BC2_UNORM_SRGB THEN "DXT5"
    ELSE IF dxgiFormat = DXGI_FORMAT_BC3_UNORM \/ dxgiFormat = DXGI_FORMAT_BC3_UNORM_SRGB THEN "DXT3"
    ELSE IF dxgiFormat = DXGI_FORMAT_BC4_UNORM THEN "BC4"
    ELSE IF dxgiFormat = DXGI_FORMAT_BC5_UNORM THEN "BC5"
    ELSE IF dxgiFormat = DXGI_FORMAT_BC7_UNORM \/ dxgiFormat = DXGI_FORMAT_BC7_UNORM_SRGB THEN "BC7"
    ELSE "other"

\* DxgiFormat without the BC7 row: BC7 falls through to the generic error
DxgiFormatNoBC7(dxgiFormat) ==
    IF dxgiFormat = DXGI_FORMAT_BC1_UNORM \/ dxgiFormat = DXGI_FORMAT_BC1_UNORM_SRGB THEN "DXT1"
    ELSE IF dxgiFormat = DXGI_FORMAT_BC2_UNORM \/ dxgiFormat = DXGI_FORMAT_BC2_UNORM_SRGB THEN "DXT3"
    ELSE IF dxgiFormat = DXGI_FORMAT_BC3_UNORM \/ dxgiFormat = DXGI_FORMAT_BC3_UNORM_SRGB THEN "DXT5"
    ELSE IF dxgiFormat = DXGI_FORMAT_BC4_UNORM THEN "BC4"
    ELSE IF dxgiFormat = DXGI_FORMAT_BC5_UNORM THEN "BC5"
    ELSE "other"

\* the DXGI -> format table of the DX10 branch; "BC7" and "other" throw
DxgiFormat(dxgiFormat) ==
    IF dxgiFormat = DXGI_FORMAT_BC1_UNORM \/ dxgiFormat = DXGI_FORMAT_BC1_UNORM_SRGB THEN "DXT1"
    ELSE IF dxgiFormat = DXGI_FORMAT_BC2_UNORM \/ dxgiFormat = DXGI_FORMAT_BC2_UNORM_SRGB THEN "DXT3"
    ELSE IF dxgiFormat = DXGI_FORMAT_BC3_UNORM \/ dxgiFormat = DXGI_FORMAT_BC3_UNORM_SRGB THEN "DXT5"
    ELSE IF dxgiFormat = DXGI_FORMAT_BC4_UNORM THEN "BC4"
    ELSE IF dxgiFormat = DXGI_FORMAT_BC5_UNORM THEN "BC5"
    ELSE IF dxgiFormat = DXGI_FORMAT_BC7_UNORM \/ dxgiFormat = DXGI_FORMAT_BC7_UNORM_SRGB THEN "BC7"
    ELSE "other"

\* the legacy FourCC -> format chain; "DX10" goes on to the DXGI table
FourCCFormat(fourCC) ==
    IF fourCC = FOURCC_DXT1 THEN "DXT1"
    ELSE IF fourCC = FOURCC_DXT3 THEN "DXT3"
    ELSE IF fourCC = FOURCC_DXT5 THEN "DXT5"
    ELSE IF fourCC = FOURCC_DX10 THEN "DX10"
    ELSE "other"

\* DataOffsetOf without the DX10 branch's dataOffset = 148
DataOffsetLegacyOnly(fourCC) == HEADER_SIZE

\* the data offset parseHeader returns for a header it accepts
DataOffsetOf(fourCC) == IF fourCC = FOURCC_DX10 THEN DX10_DATA_OFFSET ELSE HEADER_SIZE

Thrown(e, rd) == [header |-> NoHeader, error |-> e, reads |-> rd]

\* parseHeader(buffer): the header returned or the exception thrown, with
\* the bytes read on the way
parseHeader(buf) ==
    IF ~CanRead(buf, 0, 4) THEN Thrown(RangeError, {})
    ELSE IF getUint32(buf, 0) # DDS_MAGIC THEN Thrown(Err(MsgInvalidMagic, 0), Span(0, 4))
    ELSE IF ~CanRead(buf, 12, 4) THEN Thrown(RangeError, Span(0, 4))
    ELSE IF ~CanRead(buf, 16, 4) THEN Thrown(RangeError, Span(0, 4) \cup Span(12, 4))
    ELSE IF ~CanRead(buf, 20, 4) THEN Thrown(RangeError, Span(0, 4) \cup Span(12, 8))
    ELSE
    LET height == getUint32(buf, 12)
        width == getUint32(buf, 16)
        hasMips == BitAnd(getUint32(buf, 20), DDSD_MIPMAPCOUNT) # 0
        rd1 == Span(0, 4) \cup Span(12, 12) \cup (IF hasMips THEN Span(28, 4) ELSE {})
    IN
    IF hasMips /\ ~CanRead(buf, 28, 4) THEN Thrown(RangeError, Span(0, 4) \cup Span(12, 12))
    ELSE
    LET mipmapCount == IF hasMips THEN Max(1, getUint32(buf, 28)) ELSE 1 IN
    IF ~CanRead(buf, 80, 4) THEN Thrown(RangeError, rd1)
    ELSE
    LET pfFlags == getUint32(buf, 80)
        rd2 == rd1 \cup Span(80, 4)
    IN
    IF BitAnd(pfFlags, DDPF_FOURCC) = 0 THEN Thrown(Err(MsgNoFourCC, 0), rd2)
    ELSE IF ~CanRead(buf, 84, 4) THEN Thrown(RangeError, rd2)
    ELSE
    LET fourCC == getUint32(buf, 84)
        rd3 == rd2 \cup Span(84, 4)
        legacy == FourCCFormat(fourCC)
    IN
    IF legacy = "other" THEN Thrown(Err(MsgUnsupportedFourCC, fourCC), rd3)
    ELSE IF legacy # "DX10" THEN
        [header |-> [width |-> width, height |-> height, format |-> legacy,
                     mipmapCount |-> mipmapCount, dataOffset |-> DataOffsetOf(fourCC)],
         error |-> NoError, reads |-> rd3]
    ELSE IF ~CanRead(buf, 128, 4) THEN Thrown(RangeError, rd3)
    ELSE
    LET dxgiFormat == getUint32(buf, 128)
        rd4 == rd3 \cup Span(128, 4)
        fmt == DxgiFormat(dxgiFormat)
    IN
    IF fmt = "BC7" THEN Thrown(Err(MsgBC7, 0), rd4)
    ELSE IF fmt = "other" THEN Thrown(Err(MsgUnsupportedDxgi, dxgiFormat), rd4)
    ELSE
        [header |-> [width |-> width, height |-> height, format |-> fmt,
                     mipmapCount |-> mipmapCount, dataOffset |-> DataOffsetOf(fourCC)],
         error |-> NoError, reads |-> rd4]

---------------------------------------------------------------------------
(* Stores into the Uint8ClampedArray.  A value is a fraction <<n, d>> of   *)
(* non-negative integers, the exact result of the JavaScript expression;   *)
(* the array converts it on the store (ToUint8Clamp: round to nearest,     *)
(* ties to even, clamp to 0..255).  A store outside the array is dropped.  *)

Whole(n) == <<n, 1>>

ToUint8Clamp(v) ==
    LET q == v[1] \div v[2]
        rem == v[1] % v[2]
        rounded == IF 2 * rem < v[2] THEN q
                   ELSE IF 2 * rem > v[2] THEN q + 1
                   ELSE IF q % 2 = 0 THEN q ELSE q + 1
    IN IF rounded > 255 THEN 255 ELSE IF rounded < 0 THEN 0 ELSE rounded

\* Math.floor of a fraction
Floor(v) == v[1] \div v[2]

\* TexelIndex without the tile's x: idx = 4 * ((y + py) * width + px)
TexelIndexNoTileX(xx, yy, px, py, width) == 4 * ((yy + py) * width + px)

\* idx = 4 * ((y + py) * width + (x + px))
TexelIndex(xx, yy, px, py, width) == 4 * ((yy + py) * width + (xx + px))

\* ColSkipped off by one: x + px > width
ColSkippedLate(xx, px, width) == xx + px > width

\* the two "continue" guards of the py and px loops
RowSkipped(yy, py, height) == yy + py >= height
ColSkipped(xx, px, width) == xx + px >= width

\* the sixteen (px, py) of the inner loops in the order they run
Positions == [i \in 1..16 |-> [px |-> (i - 1) % 4, py |-> (i - 1) \div 4]]

\* the positions whose loop body runs past both guards
Visited(xx, yy, width, height) ==
    LET Runs(p) == ~RowSkipped(yy, p.py, height) /\ ~ColSkipped(xx, p.px, width)
    IN SelectSeq(Positions, Runs)

\* ByteStores with the channels stored in the order b, g, r, a
ByteStoresBGRA(texels) ==
    [k \in 1..(4 * Len(texels)) |->
        LET t == texels[(k - 1) \div 4 + 1]
            ch == (k - 1) % 4
        IN [i |-> t.idx + ch,
            v |-> IF ch = 0 THEN t.b ELSE IF ch = 1 THEN t.g ELSE IF ch = 2 THEN t.r ELSE t.a,
            tag |-> <<t.X, t.Y, IF ch = 0 THEN "B" ELSE IF ch = 1 THEN "G"
                                ELSE IF ch = 2 THEN "R" ELSE "A">>]]

\* the byte stores a sequence of texels makes, in the order made:
\* rgba[idx] = r; rgba[idx + 1] = g; rgba[idx + 2] = b; rgba[idx + 3] = a
ByteStores(texels) ==
    [k \in 1..(4 * Len(texels)) |->
        LET t == texels[(k - 1) \div 4 + 1]
            ch == (k - 1) % 4
        IN [i |-> t.idx + ch,
            v |-> IF ch = 0 THEN t.r ELSE IF ch = 1 THEN t.g ELSE IF ch = 2 THEN t.b ELSE t.a,
            tag |-> <<t.X, t.Y, IF ch = 0 THEN "R" ELSE IF ch = 1 THEN "G"
                                ELSE IF ch = 2 THEN "B" ELSE "A">>]]

\* the array after the stores: each byte holds the last value stored to it,
\* converted; a store outside the array is dropped
StoreAll(st, texels) ==
    LET stores == ByteStores(texels)
        hit == {stores[k].i : k \in DOMAIN stores}
        To(i) == LET At(s) == s.i = i IN SelectSeq(stores, At)
    IN [rgba |-> [i \in DOMAIN st.rgba |->
                    IF i \notin hit THEN st.rgba[i]
                    ELSE LET to == To(i) IN ToUint8Clamp(to[Len(to)].v)],
        wlog |-> [i \in DOMAIN st.wlog |->
                    IF i \notin hit THEN st.wlog[i]
                    ELSE LET to == To(i) IN st.wlog[i] \o [k \in 1..Len(to) |-> to[k].tag]],
        oob |-> st.oob \cup (hit \ DOMAIN st.rgba)]

Texel(xx, yy, p, width, r, g, b, a) ==
    [X |-> xx + p.px, Y |-> yy + p.py, idx |-> TexelIndex(xx, yy, p.px, p.py, width),
     r |-> r, g |-> g, b |-> b, a |-> a]

---------------------------------------------------------------------------
(* The colour block shared by DXT1, DXT3 and DXT5 *)

\* Endpoint with the high bits replicated into the low ones, the usual
\* RGB565 expansion: r = (r5 << 3) | (r5 >> 2), and so on
EndpointReplicated(c) ==
    [r |-> Shr(BitAnd(c, 63488), 8) + Shr(BitAnd(c, 63488), 13),
     g |-> Shr(BitAnd(c, 2016), 3) + Shr(BitAnd(c, 2016), 9),
     b |-> Shl(BitAnd(c, 31), 3) + Shr(BitAnd(c, 31), 2)]

\* r = (c & 0xF800) >> 8; g = (c & 0x07E0) >> 3; b = (c & 0x001F) << 3
Endpoint(c) ==
    [r |-> Shr(BitAnd(c, 63488), 8), g |-> Shr(BitAnd(c, 2016), 3), b |-> Shl(BitAnd(c, 31), 3)]

\* ColorBits with px and py exchanged: shift = 2 * (px * 4 + py)
ColorBitsTransposed(code, px, py) == (code \div Pow2(2 * (px * 4 + py))) % 4

\* bits = (code >> shift) & 3 with shift = 2 * (py * 4 + px); code is an int32,
\* >> is the sign-propagating shift and & 3 keeps the two low bits
ColorBits(code, px, py) == (code \div Pow2(2 * (py * 4 + px))) % 4

\* the four-colour palette: c0, c1, (2 c0 + c1) / 3, (c0 + 2 c1) / 3
FourColor(e0, e1, bits) ==
    IF bits = 0 THEN [r |-> Whole(e0.r), g |-> Whole(e0.g), b |-> Whole(e0.b)]
    ELSE IF bits = 1 THEN [r |-> Whole(e1.r), g |-> Whole(e1.g), b |-> Whole(e1.b)]
    ELSE IF bits = 2 THEN [r |-> <<2 * e0.r + e1.r, 3>>, g |-> <<2 * e0.g + e1.g, 3>>,
                           b |-> <<2 * e0.b + e1.b, 3>>]
    ELSE [r |-> <<e0.r + 2 * e1.r, 3>>, g |-> <<e0.g + 2 * e1.g, 3>>,
          b |-> <<e0.b + 2 * e1.b, 3>>]

\* ThreeColor with index 3 left opaque: the a = 0 forgotten
ThreeColorOpaque(e0, e1, bits) ==
    IF bits = 0 THEN [r |-> Whole(e0.r), g |-> Whole(e0.g), b |-> Whole(e0.b), a |-> Whole(255)]
    ELSE IF bits = 1 THEN [r |-> Whole(e1.r), g |-> Whole(e1.g), b |-> Whole(e1.b), a |-> Whole(255)]
    ELSE IF bits = 2 THEN [r |-> <<e0.r + e1.r, 2>>, g |-> <<e0.g + e1.g, 2>>,
                           b |-> <<e0.b + e1.b, 2>>, a |-> Whole(255)]
    ELSE [r |-> Whole(0), g |-> Whole(0), b |-> Whole(0), a |-> Whole(255)]

\* the c0 <= c1 arm of decodeDXT1: c0, c1, (c0 + c1) / 2, transparent black
ThreeColor(e0, e1, bits) ==
    IF bits = 0 THEN [r |-> Whole(e0.r), g |-> Whole(e0.g), b |-> Whole(e0.b), a |-> Whole(255)]
    ELSE IF bits = 1 THEN [r |-> Whole(e1.r), g |-> Whole(e1.g), b |-> Whole(e1.b), a |-> Whole(255)]
    ELSE IF bits = 2 THEN [r |-> <<e0.r + e1.r, 2>>, g |-> <<e0.g + e1.g, 2>>,
                           b |-> <<e0.b + e1.b, 2>>, a |-> Whole(255)]
    ELSE [r |-> Whole(0), g |-> Whole(0), b |-> Whole(0), a |-> Whole(0)]

\* the r, g, b, a of one decodeDXT1 texel
DXT1Color(c0, c1, bits) ==
    IF c0 > c1
    THEN LET c == FourColor(Endpoint(c0), Endpoint(c1), bits)
         IN [r |-> c.r, g |-> c.g, b |-> c.b, a |-> Whole(255)]
    ELSE ThreeColor(Endpoint(c0), Endpoint(c1), bits)

\* one tile of decodeDXT1: the block at absolute offset at, the tile at (xx, yy)
decodeDXT1Tile(buf, at, xx, yy, width, height) ==
    LET c0 == getUint16(buf, at)
        c1 == getUint16(buf, at + 2)
        code == getInt32(buf, at + 4)
        vis == Visited(xx, yy, width, height)
    IN [k \in 1..Len(vis) |->
          LET p == vis[k]
              c == DXT1Color(c0, c1, ColorBits(code, p.px, p.py))
          IN Texel(xx, yy, p, width, c.r, c.g, c.b, c.a)]

---------------------------------------------------------------------------
(* DXT3: explicit 4-bit alpha *)

\* DXT3Alpha with the most significant nibble for the leftmost texel
DXT3AlphaReversed(alphaWord, px) == BitAnd(Shr(alphaWord, (3 - px) * 4), 15) * 17

\* alphaBits = (alphaWord >> (px * 4)) & 0xF; a = alphaBits * 17
DXT3Alpha(alphaWord, px) == BitAnd(Shr(alphaWord, px * 4), 15) * 17

\* decodeDXT3Tile with the colour taken from the routine of decodeDXT1, which
\* switches to the three-colour palette when c0 <= c1
decodeDXT3TileSharedColour(buf, at, xx, yy, width, height) ==
    LET alphaData == [py \in 0..3 |-> getUint16(buf, at + 2 * py)]
        c0 == getUint16(buf, at + 8)
        c1 == getUint16(buf, at + 10)
        code == getInt32(buf, at + 12)
        vis == Visited(xx, yy, width, height)
    IN [k \in 1..Len(vis) |->
          LET p == vis[k]
              c == DXT1Color(c0, c1, ColorBits(code, p.px, p.py))
          IN Texel(xx, yy, p, width, c.r, c.g, c.b, Whole(DXT3Alpha(alphaData[p.py], p.px)))]

decodeDXT3Tile(buf, at, xx, yy, width, height) ==
    LET alphaData == [py \in 0..3 |-> getUint16(buf, at + 2 * py)]
        c0 == getUint16(buf, at + 8)
        c1 == getUint16(buf, at + 10)
        code == getInt32(buf, at + 12)
        vis == Visited(xx, yy, width, height)
    IN [k \in 1..Len(vis) |->
          LET p == vis[k]
              c == FourColor(Endpoint(c0), Endpoint(c1), ColorBits(code, p.px, p.py))
          IN Texel(xx, yy, p, width, c.r, c.g, c.b, Whole(DXT3Alpha(alphaData[p.py], p.px)))]

---------------------------------------------------------------------------
(* The 8-entry gradient of DXT5 alpha, BC4 and BC5, and its 48-bit index   *)
(* stream, held as the three 16-bit words it is read as.                   *)

\* Gradient with the test a0 >= a1: equal endpoints take the 7-step arm
GradientGreaterOrEqual(a0, a1) ==
    [i \in 0..7 |->
        IF i = 0 THEN Whole(a0)
        ELSE IF i = 1 THEN Whole(a1)
        ELSE IF a0 >= a1 THEN <<(8 - i) * a0 + (i - 1) * a1, 7>>
        ELSE IF i < 6 THEN <<(6 - i) * a0 + (i - 1) * a1, 5>>
        ELSE IF i = 6 THEN Whole(0)
        ELSE Whole(255)]

\* alphas[0..7]
Gradient(a0, a1) ==
    [i \in 0..7 |->
        IF i = 0 THEN Whole(a0)
        ELSE IF i = 1 THEN Whole(a1)
        ELSE IF a0 > a1 THEN <<(8 - i) * a0 + (i - 1) * a1, 7>>
        ELSE IF i < 6 THEN <<(6 - i) * a0 + (i - 1) * a1, 5>>
        ELSE IF i = 6 THEN Whole(0)
        ELSE Whole(255)]

\* BigInt(w1) | (BigInt(w2) << 16n) | (BigInt(w3) << 32n)
IndexStream(buf, at) == <<getUint16(buf, at), getUint16(buf, at + 2), getUint16(buf, at + 4)>>

\* alphaCode & 7n
Low3(stream) == stream[1] % 8

\* alphaCode >>= 3n
Shr3(stream) ==
    <<(stream[1] \div 8) + (stream[2] % 8) * 8192,
      (stream[2] \div 8) + (stream[3] % 8) * 8192,
      stream[3] \div 8>>

\* the index each loop body that runs takes from the stream: the body reads
\* the low three bits and shifts the stream, a skipped position does neither
RECURSIVE TakeIndices(_, _)
TakeIndices(vis, stream) ==
    IF vis = << >> THEN << >>
    ELSE <<Low3(stream)>> \o TakeIndices(Tail(vis), Shr3(stream))

decodeDXT5Tile(buf, at, xx, yy, width, height) ==
    LET a0 == getUint8(buf, at)
        a1 == getUint8(buf, at + 1)
        alphaCode == IndexStream(buf, at + 2)
        c0 == getUint16(buf, at + 8)
        c1 == getUint16(buf, at + 10)
        code == getInt32(buf, at + 12)
        alphas == Gradient(a0, a1)
        vis == Visited(xx, yy, width, height)
        alphaIdx == TakeIndices(vis, alphaCode)
    IN [k \in 1..Len(vis) |->
          LET p == vis[k]
              c == FourColor(Endpoint(c0), Endpoint(c1), ColorBits(code, p.px, p.py))
          IN Texel(xx, yy, p, width, c.r, c.g, c.b, Whole(Floor(alphas[alphaIdx[k]])))]

decodeBC4Tile(buf, at, xx, yy, width, height) ==
    LET a0 == getUint8(buf, at)
        a1 == getUint8(buf, at + 1)
        aCode == IndexStream(buf, at + 2)
        alphas == Gradient(a0, a1)
        vis == Visited(xx, yy, width, height)
        aIdx == TakeIndices(vis, aCode)
    IN [k \in 1..Len(vis) |->
          LET val == Whole(Floor(alphas[aIdx[k]]))
          IN Texel(xx, yy, vis[k], width, val, val, val, Whole(255))]

decodeBC5Tile(buf, at, xx, yy, width, height) ==
    LET r0 == getUint8(buf, at)
        r1 == getUint8(buf, at + 1)
        rBits == IndexStream(buf, at + 2)
        g0 == getUint8(buf, at + 8)
        g1 == getUint8(buf, at + 9)
        gBits == IndexStream(buf, at + 10)
        rs == Gradient(r0, r1)
        gs == Gradient(g0, g1)
        vis == Visited(xx, yy, width, height)
        rIdx == TakeIndices(vis, rBits)
        gIdx == TakeIndices(vis, gBits)
    IN [k \in 1..Len(vis) |->
          Texel(xx, yy, vis[k], width, Whole(Floor(rs[rIdx[k]])), Whole(Floor(gs[gIdx[k]])),
                Whole(0), Whole(255))]

---------------------------------------------------------------------------
(* decode: the dispatch on header.format and the tile loops *)

\* BlockSize with offset += 8 made once in every format
BlockSizeEight(format) == 8

\* the bytes a decoder's loop body takes from the stream: offset += 8, once or twice
BlockSize(format) == IF format \in {"DXT1", "BC4"} THEN 8 ELSE 16

\* the DataView reads of one loop body, as <<view offset, size>> in the order made
BlockReads(format) ==
    IF format = "DXT1" THEN <<<<0, 2>>, <<2, 2>>, <<4, 4>>>>
    ELSE IF format = "DXT3" THEN <<<<0, 2>>, <<2, 2>>, <<4, 2>>, <<6, 2>>, <<8, 2>>, <<10, 2>>, <<12, 4>>>>
    ELSE IF format = "DXT5" THEN <<<<0, 1>>, <<1, 1>>, <<2, 2>>, <<4, 2>>, <<6, 2>>, <<8, 2>>, <<10, 2>>, <<12, 4>>>>
    ELSE IF format = "BC4" THEN <<<<0, 1>>, <<1, 1>>, <<2, 2>>, <<4, 2>>, <<6, 2>>>>
    ELSE <<<<0, 1>>, <<1, 1>>, <<2, 2>>, <<4, 2>>, <<6, 2>>, <<8, 1>>, <<9, 1>>, <<10, 2>>, <<12, 2>>, <<14, 2>>>>

\* the reads of a loop body that succeed (the first that fails throws), the
\* offsets being ascending
ReadsMade(buf, at, format) ==
    UNION {Span(at + rd[1], rd[2]) :
             rd \in {r \in {BlockReads(format)[i] : i \in DOMAIN BlockReads(format)} :
                       CanRead(buf, at + r[1], r[2])}}

BlockReadable(buf, at, format) == CanRead(buf, at, BlockSize(format))

TileTexels(format, buf, at, xx, yy, width, height) ==
    IF format = "DXT1" THEN decodeDXT1Tile(buf, at, xx, yy, width, height)
    ELSE IF format = "DXT3" THEN decodeDXT3Tile(buf, at, xx, yy, width, height)
    ELSE IF format = "DXT5" THEN decodeDXT5Tile(buf, at, xx, yy, width, height)
    ELSE IF format = "BC4" THEN decodeBC4Tile(buf, at, xx, yy, width, height)
    ELSE decodeBC5Tile(buf, at, xx, yy, width, height)

\* x += 4 and, at the end of a tile row, y += 4
NextX(xx, width) == IF xx + 4 < width THEN xx + 4 ELSE 0
NextY(xx, yy, width) == IF xx + 4 < width THEN yy ELSE yy + 4

\* the first y at which the outer loop ends
LoopEnd(height) == 4 * ((height + 3) \div 4)

\* ParseHeader with the exception swallowed: decode goes on with no header
ParseHeaderSwallowed ==
    /\ pc = "parse"
    /\ LET got == parseHeader(buffer) IN
        /\ header' = got.header
        /\ error' = got.error
        /\ reads' = reads \cup got.reads
        /\ pc' = "begin"
    /\ UNCHANGED <<imageData, dataIndex, buffer, result, x, y, offset, rgba, wlog, oob>>
    /\ UNCHANGED <<sessionVars, importVars, editorVars>>

ParseHeader ==
    /\ pc = "parse"
    /\ LET got == parseHeader(buffer) IN
        /\ header' = got.header
        /\ error' = got.error
        /\ reads' = reads \cup got.reads
        /\ pc' = IF got.error = NoError THEN "begin" ELSE "failed"
    /\ UNCHANGED <<imageData, dataIndex, buffer, result, x, y, offset, rgba, wlog, oob>>
    /\ UNCHANGED <<sessionVars, importVars, editorVars>>

\* new DataView(buffer, header.dataOffset), the dispatch, and the decoder's
\* new Uint8ClampedArray(width * height * 4) and offset = 0
DecodeBegin ==
    /\ pc = "begin"
    /\ IF header.dataOffset > Len(buffer)
       THEN /\ pc' = "failed"
            /\ error' = RangeError
            /\ UNCHANGED <<x, y, offset, rgba, wlog>>
       ELSE /\ pc' = "tiles"
            /\ rgba' = [i \in 0..(header.width * header.height * 4 - 1) |-> 0]
            /\ wlog' = [i \in 0..(header.width * header.height * 4 - 1) |-> << >>]
            /\ offset' = 0
            /\ x' = 0
            /\ y' = IF header.width > 0 THEN 0 ELSE LoopEnd(header.height)
            /\ UNCHANGED error
    /\ UNCHANGED <<imageData, dataIndex, buffer, header, result, oob, reads>>
    /\ UNCHANGED <<sessionVars, importVars, editorVars>>

\* DecodeTile with a read outside the buffer ending the loops instead of
\* throwing
DecodeTileStopsShort(format) ==
    /\ pc = "tiles"
    /\ y < header.height
    /\ LET at == header.dataOffset + offset IN
       IF ~BlockReadable(buffer, at, format)
       THEN /\ y' = LoopEnd(header.height)
            /\ reads' = reads \cup ReadsMade(buffer, at, format)
            /\ UNCHANGED <<pc, error, x, offset, rgba, wlog, oob>>
       ELSE LET st == StoreAll([rgba |-> rgba, wlog |-> wlog, oob |-> oob],
                               TileTexels(format, buffer, at, x, y, header.width, header.height))
            IN /\ rgba' = st.rgba
               /\ wlog' = st.wlog
               /\ oob' = st.oob
               /\ reads' = reads \cup ReadsMade(buffer, at, format)
               /\ offset' = offset + BlockSize(format)
               /\ x' = NextX(x, header.width)
               /\ y' = NextY(x, y, header.width)
               /\ UNCHANGED <<pc, error>>
    /\ UNCHANGED <<imageData, dataIndex, buffer, header, result>>
    /\ UNCHANGED <<sessionVars, importVars, editorVars>>

\* one run of the body of the x loop of decode<format>
DecodeTile(format) ==
    /\ pc = "tiles"
    /\ y < header.height
    /\ LET at == header.dataOffset + offset IN
       IF ~BlockReadable(buffer, at, format)
       THEN /\ pc' = "failed"
            /\ error' = RangeError
            /\ reads' = reads \cup ReadsMade(buffer, at, format)
            /\ UNCHANGED <<x, y, offset, rgba, wlog, oob>>
       ELSE LET st == StoreAll([rgba |-> rgba, wlog |-> wlog, oob |-> oob],
                               TileTexels(format, buffer, at, x, y, header.width, header.height))
            IN /\ rgba' = st.rgba
               /\ wlog' = st.wlog
               /\ oob' = st.oob
               /\ reads' = reads \cup ReadsMade(buffer, at, format)
               /\ offset' = offset + BlockSize(format)
               /\ x' = NextX(x, header.width)
               /\ y' = NextY(x, y, header.width)
               /\ UNCHANGED <<pc, error>>
    /\ UNCHANGED <<imageData, dataIndex, buffer, header, result>>
    /\ UNCHANGED <<sessionVars, importVars, editorVars>>

DecodeDXT1 ==
    /\ header.format = "DXT1"
    /\ DecodeTile("DXT1")

DecodeDXT3 ==
    /\ header.format = "DXT3"
    /\ DecodeTile("DXT3")

DecodeDXT5 ==
    /\ header.format = "DXT5"
    /\ DecodeTile("DXT5")

DecodeBC4 ==
    /\ header.format = "BC4"
    /\ DecodeTile("BC4")

DecodeBC5 ==
    /\ header.format = "BC5"
    /\ DecodeTile("BC5")

\* return { width: header.width, height: header.height, data: byteArray }
DecodeReturn ==
    /\ pc = "tiles"
    /\ y >= header.height
    /\ result' = [returned |-> TRUE, width |-> header.width, height |-> header.height, data |-> rgba]
    /\ pc' = "done"
    /\ UNCHANGED <<imageData, dataIndex, buffer, header, error, x, y, offset, rgba, wlog,
                   oob, reads>>
    /\ UNCHANGED <<sessionVars, importVars, editorVars>>

---------------------------------------------------------------------------
(* The input files.  A file is laid out as parseHeader reads it: magic at  *)
(* 0, height at 12, width at 16, the flags word at 20, the mip-map count   *)
(* at 28, the pixel-format flags at 80, the FourCC at 84, and from 128 on  *)
(* either the block stream or, under FourCC DX10, the 20-byte extension    *)
(* (DXGI format first) and then the block stream.                          *)

MaxWidth == 8
MaxHeight == 8
MaxDxgi == 100
NumSeeds == 2

LE16(v) == <<v % 256, v \div 256>>
LE32(v) == <<v % 256, (v \div 256) % 256, (v \div 65536) % 256, v \div 16777216>>
Zeros(n) == [i \in 1..n |-> 0]

FileHeader(magic, height, width, flags, mips, pfFlags, fourCC) ==
    LE32(magic) \o LE32(124) \o Zeros(4) \o LE32(height) \o LE32(width) \o LE32(flags)
      \o Zeros(4) \o LE32(mips) \o Zeros(48) \o LE32(pfFlags) \o LE32(fourCC) \o Zeros(40)

File(magic, height, width, flags, mips, pfFlags, fourCC, dxgi, blocks) ==
    FileHeader(magic, height, width, flags, mips, pfFlags, fourCC)
      \o (IF fourCC = FOURCC_DX10 THEN LE32(dxgi) \o Zeros(16) ELSE << >>)
      \o blocks

TileCount(width, height) == ((width + 3) \div 4) * ((height + 3) \div 4)

\* n bytes of arbitrary block data
Noise(n, seed) == [i \in 1..n |-> (i * 37 + seed * 101 + 11) % 256]

\* n copies of one block
RECURSIVE Repeat(_, _)
Repeat(block, n) == IF n = 0 THEN << >> ELSE block \o Repeat(block, n - 1)

\* a header of every kind over one 4x4 tile of data
InitHeaders ==
    \E magic \in {DDS_MAGIC, DDS_MAGIC + 1, 0},
       pfFlags \in {4, 5, 65, 64, 0},
       mipsField \in {<<0, 0>>, <<0, 5>>, <<131072, 0>>, <<131072, 5>>, <<135175, 1>>,
                      <<4103, 9>>},
       kind \in {<<FOURCC_DXT1, 0>>, <<FOURCC_DXT3, 0>>, <<FOURCC_DXT5, 0>>,
                 <<844388420, 0>>, <<877942852, 0>>, <<843666497, 0>>, <<0, 0>>,
                 <<FOURCC_DX10, 71>>, <<FOURCC_DX10, 98>>, <<FOURCC_DX10, 70>>} :
        buffer = File(magic, 4, 4, mipsField[1], mipsField[2], pfFlags, kind[1], kind[2],
                      Noise(16, 0))

\* a DX10 header of every DXGI code
InitDxgi ==
    \E pfFlags \in {4, 5}, dxgi \in 0..MaxDxgi :
        buffer = File(DDS_MAGIC, 4, 4, 0, 0, pfFlags, FOURCC_DX10, dxgi, Noise(16, 1))

\* an image of every size in every format, legacy and DX10
InitImages ==
    \E width \in 0..MaxWidth, height \in 0..MaxHeight, seed \in 0..(NumSeeds - 1),
       kind \in {<<FOURCC_DXT1, 0, 8>>, <<FOURCC_DXT3, 0, 16>>, <<FOURCC_DXT5, 0, 16>>,
                 <<FOURCC_DX10, 71, 8>>, <<FOURCC_DX10, 74, 16>>, <<FOURCC_DX10, 77, 16>>,
                 <<FOURCC_DX10, 80, 8>>, <<FOURCC_DX10, 83, 16>>} :
        buffer = File(DDS_MAGIC, height, width, 0, 0, 4, kind[1], kind[2],
                      Noise(TileCount(width, height) * kind[3], seed))

\* a DXT1 image of one repeated block, over the endpoint pairs and index words
InitDXT1 ==
    \E c0 \in {0, 31, 2016, 4660, 33808, 43981, 63488, 65535},
       c1 \in {0, 31, 2016, 4660, 33808, 43981, 63488, 65535},
       code \in {<<0, 0, 0, 0>>, <<255, 255, 255, 255>>, <<228, 228, 228, 228>>,
                 <<27, 27, 27, 27>>, <<0, 0, 0, 192>>, <<0, 0, 0, 128>>, <<0, 0, 0, 64>>},
       size \in {<<4, 4>>, <<5, 4>>, <<2, 3>>} :
        buffer = File(DDS_MAGIC, size[2], size[1], 0, 0, 4, FOURCC_DXT1, 0,
                      Repeat(LE16(c0) \o LE16(c1) \o code, TileCount(size[1], size[2])))

\* the sizes of the images of one repeated block: one whole tile, a tile
\* clipped on both sides, and four tiles of which three are clipped
BlockImageSizes == {<<4, 4>>, <<3, 2>>, <<7, 6>>}

\* a DXT3 image of one repeated block: the alpha words 0x3210, 0x7654,
\* 0xBA98, 0xFEDC (every nibble) or zero, over colour endpoints in either
\* order and equal
InitDXT3 ==
    \E alpha \in {<<16, 50, 84, 118, 152, 186, 220, 254>>, <<0, 0, 0, 0, 0, 0, 0, 0>>},
       c0 \in {31, 4660, 63488},
       c1 \in {31, 4660, 63488},
       code \in {<<228, 228, 228, 228>>, <<0, 0, 0, 192>>, <<255, 255, 255, 255>>},
       size \in BlockImageSizes :
        buffer = File(DDS_MAGIC, size[2], size[1], 0, 0, 4, FOURCC_DXT3, 0,
                      Repeat(alpha \o LE16(c0) \o LE16(c1) \o code,
                             TileCount(size[1], size[2])))

\* the endpoints of the gradient blocks
RampEndpoints == {0, 1, 100, 128, 254, 255}

\* two 48-bit index streams: the sixteen indices 0, 1, .., 7, 0, 1, .., 7
\* and 7, 6, .., 0, 7, 6, .., 0
Ascending == <<136, 198, 250, 136, 198, 250>>
Descending == <<119, 57, 5, 119, 57, 5>>

\* a DXT5, BC4 or BC5 image of one repeated block over the endpoint pairs:
\* the DXT5 colour half has c0 < c1, the green half of BC5 has the
\* endpoints exchanged and the other index stream
InitGradients ==
    \E a0 \in RampEndpoints, a1 \in RampEndpoints, up \in BOOLEAN,
       size \in BlockImageSizes,
       kind \in {<<FOURCC_DXT5, 0>>, <<FOURCC_DX10, 80>>, <<FOURCC_DX10, 83>>} :
        LET stream == IF up THEN Ascending ELSE Descending
            other == IF up THEN Descending ELSE Ascending
            block == IF kind[1] = FOURCC_DXT5
                     THEN <<a0, a1>> \o stream \o LE16(31) \o LE16(63488) \o <<228, 228, 228, 228>>
                     ELSE IF kind[2] = 80 THEN <<a0, a1>> \o stream
                     ELSE <<a0, a1>> \o stream \o <<a1, a0>> \o other
        IN buffer = File(DDS_MAGIC, size[2], size[1], 0, 0, 4, kind[1], kind[2],
                         Repeat(block, TileCount(size[1], size[2])))

Init ==
    /\ InitHeaders \/ InitDxgi \/ InitImages \/ InitDXT1 \/ InitDXT3 \/ InitGradients
    /\ pc = "parse"
    /\ header = NoHeader
    /\ error = NoError
    /\ result = NoResult
    /\ x = 0
    /\ y = 0
    /\ offset = 0
    /\ rgba = << >>
    /\ wlog = << >>
    /\ oob = {}
    /\ reads = {}
    /\ imageData = NoImageData
    /\ dataIndex = 0
    /\ NoSession
    /\ NoImport
    /\ NoEditor

Next ==
    \/ ParseHeader
    \/ DecodeBegin
    \/ DecodeDXT1
    \/ DecodeDXT3
    \/ DecodeDXT5
    \/ DecodeBC4
    \/ DecodeBC5
    \/ DecodeReturn

Spec == Init /\ [][Next]_vars

---------------------------------------------------------------------------
(* DDSEncoder.encode *)

headerSize == 128

MaxEncodeWidth == 4
MaxEncodeHeight == 4

\* BufferSize with three bytes per texel
BufferSizeRGB(width, height) == headerSize + (width * height * 3)

\* bufferSize = headerSize + (width * height * 4)
BufferSize(width, height) == headerSize + (width * height * 4)

\* Pitch without the bytes per texel
PitchInTexels(width) == width

\* dwPitchOrLinearSize: width * 4
Pitch(width) == width * 4

\* HeaderStores with DDPF_FOURCC among the pixel-format flags
HeaderStoresFourCC(width, height) ==
    <<<<0, 542327876>>, <<4, 124>>, <<8, 1 + 2 + 4 + 4096>>, <<12, height>>, <<16, width>>,
      <<20, Pitch(width)>>, <<76, 32>>, <<80, 69>>, <<84, 0>>, <<88, 32>>,
      <<92, 16711680>>, <<96, 65280>>, <<100, 255>>, <<104, -16777216>>, <<108, 4096>>>>

\* the setUint32 calls of the header, as <<offset, value>> in the order made;
\* 0xFF000000 is held as the int32 of the same 32 bits
HeaderStores(width, height) ==
    <<<<0, 542327876>>, <<4, 124>>, <<8, 1 + 2 + 4 + 4096>>, <<12, height>>, <<16, width>>,
      <<20, Pitch(width)>>, <<76, 32>>, <<80, 65>>, <<84, 0>>, <<88, 32>>,
      <<92, 16711680>>, <<96, 65280>>, <<100, 255>>, <<104, -16777216>>, <<108, 4096>>>>

\* byte k (0 the lowest) of the value setUint32 stores little-endian: the
\* value modulo 2^32
StoredByte(v, k) == (v \div Pow2(8 * k)) % 256

\* the buffer after a sequence of setUint32(offset, value, true), each inside it
setUint32All(buf, stores) ==
    [k \in DOMAIN buf |->
        LET Covers(s) == s[1] <= k - 1 /\ k - 1 < s[1] + 4
            to == SelectSeq(stores, Covers)
        IN IF to = << >> THEN buf[k]
           ELSE StoredByte(to[Len(to)][2], k - 1 - to[Len(to)][1])]

\* data[i]: a typed-array read, undefined past the end (stored as 0)
DataAt(data, idx) == IF idx < Len(data) THEN data[idx + 1] ELSE 0

\* TexelBytes with the channels left in the order of the input
TexelBytesRGBA(r, g, b, a) == <<r, g, b, a>>

\* the four setUint8 of one texel: b, g, r, a at offset .. offset + 3
TexelBytes(r, g, b, a) == <<b, g, r, a>>

\* the allocation of the ArrayBuffer, the header stores and offset = 128
EncodeHeader ==
    /\ pc = "encode"
    /\ buffer' = setUint32All(Zeros(BufferSize(imageData.width, imageData.height)),
                              HeaderStores(imageData.width, imageData.height))
    /\ offset' = 128
    /\ dataIndex' = 0
    /\ pc' = "body"
    /\ UNCHANGED <<imageData, header, error, result, x, y, rgba, wlog, oob, reads>>
    /\ UNCHANGED <<sessionVars, importVars, editorVars>>

\* EncodeTexel with the red and blue bytes exchanged in the input array
\* before they are copied
EncodeTexelInPlace ==
    /\ pc = "body"
    /\ dataIndex < Len(imageData.data)
    /\ LET data == imageData.data
           bytes == TexelBytes(DataAt(data, dataIndex), DataAt(data, dataIndex + 1),
                               DataAt(data, dataIndex + 2), DataAt(data, dataIndex + 3))
           room == Len(buffer) - offset
           made == IF room >= 4 THEN 4 ELSE Max(0, room)
       IN /\ buffer' = [k \in DOMAIN buffer |->
                          IF offset <= k - 1 /\ k - 1 < offset + made
                          THEN bytes[k - offset] ELSE buffer[k]]
          /\ IF made = 4
             THEN /\ offset' = offset + 4
                  /\ dataIndex' = dataIndex + 4
                  /\ UNCHANGED <<pc, error>>
             ELSE /\ pc' = "failed"
                  /\ error' = RangeError
                  /\ UNCHANGED <<offset, dataIndex>>
    /\ imageData' = [imageData EXCEPT !.data =
                        [k \in DOMAIN imageData.data |->
                            IF k = dataIndex + 1 THEN DataAt(imageData.data, dataIndex + 2)
                            ELSE IF k = dataIndex + 3 THEN DataAt(imageData.data, dataIndex)
                            ELSE imageData.data[k]]]
    /\ UNCHANGED <<header, result, x, y, rgba, wlog, oob, reads>>
    /\ UNCHANGED <<sessionVars, importVars, editorVars>>

\* one run of the body of the loop over data: the setUint8 that falls outside
\* the buffer throws, the ones before it having been made
EncodeTexel ==
    /\ pc = "body"
    /\ dataIndex < Len(imageData.data)
    /\ LET data == imageData.data
           bytes == TexelBytes(DataAt(data, dataIndex), DataAt(data, dataIndex + 1),
                               DataAt(data, dataIndex + 2), DataAt(data, dataIndex + 3))
           room == Len(buffer) - offset
           made == IF room >= 4 THEN 4 ELSE Max(0, room)
       IN /\ buffer' = [k \in DOMAIN buffer |->
                          IF offset <= k - 1 /\ k - 1 < offset + made
                          THEN bytes[k - offset] ELSE buffer[k]]
          /\ IF made = 4
             THEN /\ offset' = offset + 4
                  /\ dataIndex' = dataIndex + 4
                  /\ UNCHANGED <<pc, error>>
             ELSE /\ pc' = "failed"
                  /\ error' = RangeError
                  /\ UNCHANGED <<offset, dataIndex>>
    /\ UNCHANGED <<imageData, header, result, x, y, rgba, wlog, oob, reads>>
    /\ UNCHANGED <<sessionVars, importVars, editorVars>>

\* return buffer
EncodeReturn ==
    /\ pc = "body"
    /\ dataIndex >= Len(imageData.data)
    /\ pc' = "encoded"
    /\ UNCHANGED <<imageData, dataIndex, buffer, header, error, result, x, y, offset,
                   rgba, wlog, oob, reads>>
    /\ UNCHANGED <<sessionVars, importVars, editorVars>>

\* the ImageData of a canvas: width and height at least 1 and
\* width * height * 4 bytes of R, G, B, A; and the 1x1 image (10, 20, 30, 40)
InitImageData ==
    \/ \E width \in 1..MaxEncodeWidth, height \in 1..MaxEncodeHeight,
          seed \in 0..(NumSeeds - 1) :
          imageData = [width |-> width, height |-> height,
                       data |-> Noise(width * height * 4, seed)]
    \/ imageData = [width |-> 1, height |-> 1, data |-> <<10, 20, 30, 40>>]

InitEncode ==
    /\ InitImageData
    /\ pc = "encode"
    /\ buffer = << >>
    /\ header = NoHeader
    /\ error = NoError
    /\ result = NoResult
    /\ x = 0
    /\ y = 0
    /\ offset = 0
    /\ rgba = << >>
    /\ wlog = << >>
    /\ oob = {}
    /\ reads = {}
    /\ dataIndex = 0
    /\ NoSession
    /\ NoImport
    /\ NoEditor

NextEncode ==
    \/ EncodeHeader
    \/ EncodeTexel
    \/ EncodeReturn

SpecEncode == InitEncode /\ [][NextEncode]_vars

---------------------------------------------------------------------------
(* What the properties read off the input file, independently of the decoder *)

Byte(o) == buffer[o + 1]
Word(o) == Byte(o) + 256 * Byte(o + 1)
Field(o) == Byte(o) + 256 * Byte(o + 1) + 65536 * Byte(o + 2) + 16777216 * Byte(o + 3)

MagicOk == Field(0) = 542327876
FourCCFlag == (Field(80) \div 4) % 2 = 1
IsDX10 == Field(84) = 808540228

\* the format the header is expected to select, "none" when it is to be refused
ExpectedFormat ==
    CASE Field(84) = 827611204 -> "DXT1"
      [] Field(84) = 861165636 -> "DXT3"
      [] Field(84) = 894720068 -> "DXT5"
      [] IsDX10 /\ Field(128) \in {71, 72} -> "DXT1"
      [] IsDX10 /\ Field(128) \in {74, 75} -> "DXT3"
      [] IsDX10 /\ Field(128) \in {77, 78} -> "DXT5"
      [] IsDX10 /\ Field(128) = 80 -> "BC4"
      [] IsDX10 /\ Field(128) = 83 -> "BC5"
      [] OTHER -> "none"

Parsed == pc # "parse"

\* decode ended in an exception with message m: nothing was returned, no
\* output was allocated, and no byte at or after blockStart was read
FailedWith(m, blockStart) ==
    /\ pc = "failed"
    /\ error.name = "Error"
    /\ error.message = m
    /\ header = NoHeader
    /\ result = NoResult
    /\ rgba = << >>
    /\ offset = 0
    /\ \A o \in reads : o < blockStart

BlockStart == IF IsDX10 THEN 148 ELSE 128

---------------------------------------------------------------------------
(* C1: for every header with valid magic and the FourCC flag set,          *)
(* parseHeader selects the format by the FourCC / DXGI table (DXT1, DXT3,  *)
(* DXT5 by FourCC; under DX10 71,72 -> DXT1, 74,75 -> DXT3, 77,78 -> DXT5, *)
(* 80 -> BC4, 83 -> BC5), and every other FourCC or DXGI code gives an     *)
(* error and no header.                                                    *)
C1_FormatMapping ==
    (Parsed /\ MagicOk /\ FourCCFlag) =>
        /\ header.format = ExpectedFormat
        /\ ExpectedFormat = "none" =>
              (pc = "failed" /\ error.name = "Error" /\ header = NoHeader /\ result = NoResult)
        /\ ExpectedFormat # "none" => (header # NoHeader /\ error = NoError)

C1_Witness ==
    /\ pc = "begin" /\ IsDX10 /\ Field(128) = 75 /\ header.format = "DXT3"

(* C2: for every accepted header dataOffset is 128 or 148, and 148 exactly *)
(* when the FourCC at offset 84 is DX10.                                   *)
C2_DataOffset ==
    (Parsed /\ header # NoHeader) =>
        /\ header.dataOffset \in {128, 148}
        /\ header.dataOffset = 148 <=> IsDX10

C2_Witness ==
    /\ pc = "begin" /\ IsDX10 /\ header.dataOffset = 148 /\ header.format = "BC4"

(* C3: FourCC DX10 with DXGI 98 or 99 makes parseHeader and decode fail    *)
(* with the BC7 error, whose message carries the convert-to-DXT5 (BC3)     *)
(* guidance, and no other unsupported DXGI code produces that error.       *)
C3_BC7Error ==
    (Parsed /\ MagicOk /\ FourCCFlag /\ IsDX10) =>
        /\ Field(128) \in {98, 99} =>
              /\ pc = "failed"
              /\ result = NoResult
              /\ header = NoHeader
              /\ error = [name |-> "Error", message |-> MsgBC7, arg |-> 0]
        /\ (Field(128) \notin {98, 99} /\ ExpectedFormat = "none") =>
              /\ pc = "failed"
              /\ error.name = "Error"
              /\ error.message # MsgBC7
              /\ error # [name |-> "Error", message |-> MsgBC7, arg |-> 0]

C3_Witness ==
    /\ pc = "failed" /\ MagicOk /\ FourCCFlag /\ IsDX10 /\ Field(128) = 99
    /\ error.message = MsgBC7

(* C4: every header error is terminal and precedes block reading: a magic  *)
(* mismatch, an absent FourCC flag, an unknown FourCC and an unmapped      *)
(* non-BC7 DXGI code each fail with their own error, in that order of      *)
(* precedence; decode then returns no image, reads no byte of the block    *)
(* stream, and takes no further step.                                      *)
C4_HeaderErrorsTerminal ==
    /\ Parsed =>
        /\ ~MagicOk => FailedWith(MsgInvalidMagic, BlockStart)
        /\ (MagicOk /\ ~FourCCFlag) => FailedWith(MsgNoFourCC, BlockStart)
        /\ (MagicOk /\ FourCCFlag /\ ~IsDX10 /\ ExpectedFormat = "none") =>
              (FailedWith(MsgUnsupportedFourCC, BlockStart) /\ error.arg = Field(84))
        /\ (MagicOk /\ FourCCFlag /\ IsDX10 /\ ExpectedFormat = "none"
              /\ Field(128) \notin {98, 99}) =>
              (FailedWith(MsgUnsupportedDxgi, BlockStart) /\ error.arg = Field(128))
    /\ pc = "failed" => ~ENABLED Next

C4_Witness ==
    /\ pc = "failed" /\ MagicOk /\ FourCCFlag /\ IsDX10 /\ Field(128) = 70
    /\ error.message = MsgUnsupportedDxgi /\ reads # {}

---------------------------------------------------------------------------
(* What the properties read off a decoded image *)

Done == pc = "done"
Width == Field(16)
Height == Field(12)
Columns == 0..(Width - 1)
Rows == 0..(Height - 1)
TilesAcross == (Width + 3) \div 4
ExpectedBlockSize == IF header.format \in {"DXT1", "BC4"} THEN 8 ELSE 16

\* the output byte of channel ch (0..3 for R, G, B, A) of the texel at (X, Y)
Out(X, Y, ch) == result.data[4 * (Y * Width + X) + ch]

ChannelName == <<"R", "G", "B", "A">>

(* C5: whenever decode returns, in each of the five formats, the result    *)
(* carries the header's width and height and a data buffer of exactly      *)
(* width*height*4 bytes in which the texel at column X, row Y occupies     *)
(* bytes 4*(Y*width+X) .. +3 in R, G, B, A order.                          *)
C5_OutputLayout ==
    Done =>
        /\ result.returned
        /\ header.format \in {"DXT1", "DXT3", "DXT5", "BC4", "BC5"}
        /\ result.width = Width
        /\ result.height = Height
        /\ DOMAIN result.data = 0..(Width * Height * 4 - 1)
        /\ result.data = rgba
        /\ \A X \in Columns, Y \in Rows, ch \in 0..3 :
              LET stores == wlog[4 * (Y * Width + X) + ch]
              IN /\ stores # << >>
                 /\ stores[Len(stores)] = <<X, Y, ChannelName[ch + 1]>>

C5_Witness ==
    /\ Done /\ header.format = "BC5" /\ Width = 6 /\ Height = 5
    /\ DOMAIN result.data = 0..119

(* C6: when width and height are both multiples of 4, each decoder writes  *)
(* every output texel exactly once: no byte is stored to twice and, when   *)
(* the decoder is done, none is left unwritten.                            *)
C6_WrittenOnce ==
    (pc \in {"tiles", "done"} /\ Width % 4 = 0 /\ Height % 4 = 0) =>
        /\ oob = {}
        /\ \A i \in DOMAIN wlog : Len(wlog[i]) <= 1
        /\ Done => \A X \in Columns, Y \in Rows, ch \in 0..3 :
                      Len(wlog[4 * (Y * Width + X) + ch]) = 1

C6_Witness ==
    /\ Done /\ Width = 8 /\ Height = 8 /\ header.format = "DXT5"
    /\ \A i \in 0..255 : Len(wlog[i]) = 1

(* C7: when width or height is not a multiple of 4, each decoder still     *)
(* takes one full block (8 bytes for DXT1/BC4, 16 for DXT3/DXT5/BC5) per   *)
(* tile, the tile at tile-row ty, tile-column tx being read at             *)
(* (ty*ceil(width/4)+tx)*blockSize after dataOffset; only texels inside    *)
(* the image are written, no store reaches width*height*4, and no error    *)
(* is raised (the file holding a block for every tile).                    *)
C7_ClippedTiles ==
    (/\ pc \in {"tiles", "done", "failed"}
     /\ header # NoHeader
     /\ Width % 4 # 0 \/ Height % 4 # 0
     /\ Len(buffer) >= header.dataOffset
                         + TilesAcross * ((Height + 3) \div 4) * ExpectedBlockSize) =>
        /\ error = NoError
        /\ oob = {}
        /\ DOMAIN rgba = 0..(Width * Height * 4 - 1)
        /\ \A i \in DOMAIN wlog : \A k \in DOMAIN wlog[i] :
              /\ wlog[i][k][1] \in Columns
              /\ wlog[i][k][2] \in Rows
        /\ (pc = "tiles" /\ y < Height) =>
              /\ x % 4 = 0 /\ y % 4 = 0 /\ x < Width
              /\ offset = ((y \div 4) * TilesAcross + x \div 4) * ExpectedBlockSize
        /\ {o \in reads : o >= header.dataOffset}
              = header.dataOffset .. (header.dataOffset + offset - 1)
        /\ Done => offset = TilesAcross * ((Height + 3) \div 4) * ExpectedBlockSize

C7_Witness ==
    /\ Done /\ Width = 6 /\ Height = 6 /\ header.format = "DXT3" /\ offset = 64
    /\ \A i \in 0..143 : Len(wlog[i]) = 1

---------------------------------------------------------------------------
(* DXT1 texels, read off the file *)

\* the block of the tile holding texel (X, Y)
BlockOf(X, Y) == header.dataOffset + ((Y \div 4) * TilesAcross + X \div 4) * 8

\* bits 2k and 2k+1, k = 4*py + px, of the little-endian index word at o
IndexOf(o, px, py) ==
    LET k == 4 * py + px
        in_byte == k % 4
    IN (Byte(o + k \div 4)
          \div (IF in_byte = 0 THEN 1 ELSE IF in_byte = 1 THEN 4 ELSE IF in_byte = 2 THEN 16 ELSE 64)) % 4

Red(c) == (c \div 2048) * 8
Green(c) == ((c \div 32) % 64) * 4
Blue(c) == (c % 32) * 8

\* the palette entry of one channel, as <<numerator, denominator>>
PaletteEntry(c0, c1, e0, e1, index) ==
    IF index = 0 THEN <<e0, 1>>
    ELSE IF index = 1 THEN <<e1, 1>>
    ELSE IF c0 > c1 THEN (IF index = 2 THEN <<2 * e0 + e1, 3>> ELSE <<e0 + 2 * e1, 3>>)
    ELSE (IF index = 2 THEN <<e0 + e1, 2>> ELSE <<0, 1>>)

\* the stored byte is the fraction itself or, when the fraction is not whole,
\* one of the two integers next to it
Holds(byte, frac) ==
    /\ byte \in 0..255
    /\ byte * frac[2] > frac[1] - frac[2]
    /\ byte * frac[2] < frac[1] + frac[2]

IsDXT1Image == Done /\ header.format = "DXT1"

(* C8: in decodeDXT1 the texel at (px, py) of a tile takes its 2-bit index *)
(* from bits 2*(4*py+px) and the next of the block's little-endian index   *)
(* word (the two top bits for px = 3, py = 3), and its colour is that      *)
(* index's palette entry: for c0 > c1, c0, c1, (2 c0 + c1)/3, (c0 + 2 c1)/3; *)
(* for c0 <= c1, c0, c1, (c0 + c1)/2, black; the endpoint channels being   *)
(* r = (c & 0xF800) >> 8, g = (c & 0x07E0) >> 3, b = (c & 0x001F) << 3.    *)
C8_DXT1Colour ==
    IsDXT1Image =>
        \A X \in Columns, Y \in Rows :
            LET o == BlockOf(X, Y)
                c0 == Word(o)
                c1 == Word(o + 2)
                index == IndexOf(o + 4, X % 4, Y % 4)
            IN /\ Holds(Out(X, Y, 0), PaletteEntry(c0, c1, Red(c0), Red(c1), index))
               /\ Holds(Out(X, Y, 1), PaletteEntry(c0, c1, Green(c0), Green(c1), index))
               /\ Holds(Out(X, Y, 2), PaletteEntry(c0, c1, Blue(c0), Blue(c1), index))

\* a four-colour block whose index word has only its two top bits set: the
\* texel at (3, 3) alone takes index 3
C8_Witness ==
    /\ IsDXT1Image /\ Width = 4 /\ Height = 4
    /\ Word(128) = 63488 /\ Word(130) = 31
    /\ Byte(132) = 0 /\ Byte(133) = 0 /\ Byte(134) = 0 /\ Byte(135) = 192
    /\ Out(3, 3, 0) = 83 /\ Out(3, 3, 2) = 165
    /\ Out(2, 3, 0) = 248 /\ Out(2, 3, 2) = 0

(* C9: in decodeDXT1, in a block with c0 <= c1 every texel of index 3 is   *)
(* (0,0,0) with alpha 0 and every texel of index 0, 1 or 2 has alpha 255;  *)
(* in a block with c0 > c1 every texel has alpha 255.                      *)
C9_DXT1Alpha ==
    IsDXT1Image =>
        \A X \in Columns, Y \in Rows :
            LET o == BlockOf(X, Y)
                index == IndexOf(o + 4, X % 4, Y % 4)
            IN IF Word(o) <= Word(o + 2) /\ index = 3
               THEN Out(X, Y, 0) = 0 /\ Out(X, Y, 1) = 0 /\ Out(X, Y, 2) = 0 /\ Out(X, Y, 3) = 0
               ELSE Out(X, Y, 3) = 255

C9_Witness ==
    /\ IsDXT1Image /\ Width = 4 /\ Height = 4
    /\ Word(128) = 31 /\ Word(130) = 63488
    /\ Byte(135) = 192 /\ Byte(132) = 0
    /\ Out(3, 3, 3) = 0 /\ Out(0, 0, 3) = 255

\* the 4x4 DXT1 image of one block with c0 = 0xF800, c1 = 0x001F, indices 0
RedBlueScenario ==
    /\ IsDXT1Image /\ Width = 4 /\ Height = 4
    /\ Word(128) = 63488 /\ Word(130) = 31
    /\ Byte(132) = 0 /\ Byte(133) = 0 /\ Byte(134) = 0 /\ Byte(135) = 0

(* C10 as stated: the 4x4 DXT1 image whose block has c0 = 0xF800,          *)
(* c1 = 0x001F and an all-zero index word decodes to sixteen texels        *)
(* (255,0,0,255).                                                          *)
C10_Original ==
    RedBlueScenario =>
        \A X \in 0..3, Y \in 0..3 :
            /\ Out(X, Y, 0) = 255 /\ Out(X, Y, 1) = 0 /\ Out(X, Y, 2) = 0 /\ Out(X, Y, 3) = 255

(* C10 amended: that image decodes to sixteen texels (248,0,0,255), 248    *)
(* being (0xF800 & 0xF800) >> 8.                                           *)
C10_Amended ==
    RedBlueScenario =>
        \A X \in 0..3, Y \in 0..3 :
            /\ Out(X, Y, 0) = 248 /\ Out(X, Y, 1) = 0 /\ Out(X, Y, 2) = 0 /\ Out(X, Y, 3) = 255

C10_Witness ==
    /\ RedBlueScenario /\ result.returned /\ DOMAIN result.data = 0..63
    /\ Out(0, 0, 0) = 248

---------------------------------------------------------------------------
(* Texels of every format, read off the file *)

IsImage(format) == Done /\ header.format = format

\* the block of the tile holding texel (X, Y), of 8 or 16 bytes
BlockAt(X, Y) == header.dataOffset + ((Y \div 4) * TilesAcross + X \div 4) * ExpectedBlockSize

\* the colour block inside it: the whole DXT1 block, the second half of a
\* DXT3 or DXT5 block
ColourBlockAt(X, Y) == BlockAt(X, Y) + (IF header.format = "DXT1" THEN 0 ELSE 8)

\* channel ch (0, 1, 2 for r, g, b) of an RGB565 endpoint
Channel(c, ch) == IF ch = 0 THEN Red(c) ELSE IF ch = 1 THEN Green(c) ELSE Blue(c)

\* the four-colour palette entry of one channel, whatever the order of c0, c1
FourColourEntry(e0, e1, index) == PaletteEntry(1, 0, e0, e1, index)

\* the palette entry of channel ch of texel (X, Y): DXT1 chooses the palette
\* by c0 > c1
ColourEntry(X, Y, ch) ==
    LET o == ColourBlockAt(X, Y)
        c0 == Word(o)
        c1 == Word(o + 2)
        index == IndexOf(o + 4, X % 4, Y % 4)
    IN IF header.format = "DXT1"
       THEN PaletteEntry(c0, c1, Channel(c0, ch), Channel(c1, ch), index)
       ELSE FourColourEntry(Channel(c0, ch), Channel(c1, ch), index)

\* entry i of the 8-entry ramp over the endpoints a0, a1, as a fraction
Ramp(a0, a1, i) ==
    IF i = 0 THEN <<a0, 1>>
    ELSE IF i = 1 THEN <<a1, 1>>
    ELSE IF a0 > a1 THEN <<(8 - i) * a0 + (i - 1) * a1, 7>>
    ELSE IF i <= 5 THEN <<(6 - i) * a0 + (i - 1) * a1, 5>>
    ELSE IF i = 6 THEN <<0, 1>>
    ELSE <<255, 1>>

\* a fraction truncated toward zero
Truncated(frac) == frac[1] \div frac[2]

\* the truncated entries of the ramp whose endpoints are the two bytes at o
RampValues(o) == {Truncated(Ramp(Byte(o), Byte(o + 1), i)) : i \in 0..7}

(* C11: every interpolated value a decoder stores is the exact quotient    *)
(* truncated toward zero: each colour channel of a DXT1, DXT3 or DXT5      *)
(* texel is the floor of its palette entry ((2 e0 + e1)/3, (e0 + 2 e1)/3   *)
(* or (e0 + e1)/2), and each DXT5 alpha, BC4 value and BC5 red and green   *)
(* is the floor of an entry of its block's ramp; none is rounded to        *)
(* nearest.                                                                *)
C11_FloorEverywhere ==
    Done =>
        \A X \in Columns, Y \in Rows :
            /\ header.format \in {"DXT1", "DXT3", "DXT5"} =>
                  \A ch \in 0..2 : Out(X, Y, ch) = Truncated(ColourEntry(X, Y, ch))
            /\ header.format = "DXT5" => Out(X, Y, 3) \in RampValues(BlockAt(X, Y))
            /\ header.format = "BC4" => Out(X, Y, 0) \in RampValues(BlockAt(X, Y))
            /\ header.format = "BC5" =>
                  /\ Out(X, Y, 0) \in RampValues(BlockAt(X, Y))
                  /\ Out(X, Y, 1) \in RampValues(BlockAt(X, Y) + 8)

\* the part of C11 the decoders do keep: the ramp values are floored
C11_RampFloored ==
    Done =>
        \A X \in Columns, Y \in Rows :
            /\ header.format = "DXT5" => Out(X, Y, 3) \in RampValues(BlockAt(X, Y))
            /\ header.format = "BC4" => Out(X, Y, 0) \in RampValues(BlockAt(X, Y))
            /\ header.format = "BC5" =>
                  /\ Out(X, Y, 0) \in RampValues(BlockAt(X, Y))
                  /\ Out(X, Y, 1) \in RampValues(BlockAt(X, Y) + 8)

\* nibble px of the little-endian 16-bit word py of the eight bytes at o
Nibble(o, px, py) ==
    (Byte(o + 2 * py + px \div 2) \div (IF px % 2 = 0 THEN 1 ELSE 16)) % 16

(* C12: decodeDXT3 and decodeDXT5 use the four-colour palette for every    *)
(* pair c0, c1, also when c0 <= c1: index 2 decodes to (2 c0 + c1)/3 and   *)
(* index 3 to (c0 + 2 c1)/3 in each channel, index 3 is never              *)
(* punch-through transparent black, and the alpha of a texel is what the   *)
(* alpha half of its block gives (17 times its nibble in DXT3, a value of  *)
(* its ramp in DXT5), whatever the colour half holds.                      *)
C12_AlwaysFourColour ==
    (IsImage("DXT3") \/ IsImage("DXT5")) =>
        \A X \in Columns, Y \in Rows :
            LET o == BlockAt(X, Y)
                c0 == Word(o + 8)
                c1 == Word(o + 10)
                index == IndexOf(o + 12, X % 4, Y % 4)
            IN /\ \A ch \in 0..2 :
                    Holds(Out(X, Y, ch),
                          FourColourEntry(Channel(c0, ch), Channel(c1, ch), index))
               /\ header.format = "DXT3" => Out(X, Y, 3) = 17 * Nibble(o, X % 4, Y % 4)
               /\ header.format = "DXT5" => Out(X, Y, 3) \in RampValues(o)

\* a DXT3 block with c0 < c1 whose texel (3, 3) has index 3 and nibble 15:
\* under the palette of decodeDXT1 it would be (0, 0, 0, 0)
C12_Witness ==
    /\ IsImage("DXT3") /\ Width = 4 /\ Height = 4
    /\ Word(136) = 31 /\ Word(138) = 63488
    /\ Byte(140) = 0 /\ Byte(143) = 192 /\ Byte(135) = 254
    /\ Out(3, 3, 0) = 165 /\ Out(3, 3, 1) = 0 /\ Out(3, 3, 2) = 83 /\ Out(3, 3, 3) = 255

(* C13: in decodeDXT3 each 16-byte block is four little-endian 16-bit      *)
(* alpha words followed by the 8-byte colour block (endpoints at 8 and 10, *)
(* index word at 12), and the alpha of the texel at (px, py) of the tile   *)
(* is 17 times the nibble at bits 4 px .. 4 px + 3 of alpha word py, for   *)
(* every texel inside the image, also in a tile the image edge clips.      *)
C13_DXT3Alpha ==
    IsImage("DXT3") =>
        \A X \in Columns, Y \in Rows :
            LET o == BlockAt(X, Y)
                px == X % 4
                py == Y % 4
                alphaWord == Word(o + 2 * py)
                index == IndexOf(o + 12, px, py)
            IN /\ Out(X, Y, 3) = 17 * ((alphaWord \div Pow2(4 * px)) % 16)
               /\ index = 0 => \A ch \in 0..2 : Out(X, Y, ch) = Channel(Word(o + 8), ch)
               /\ index = 1 => \A ch \in 0..2 : Out(X, Y, ch) = Channel(Word(o + 10), ch)

\* a 7x6 image of the block with alpha words 0x3210, 0x7654, 0xBA98, 0xFEDC:
\* the last tile keeps three columns and two rows
C13_Witness ==
    /\ IsImage("DXT3") /\ Width = 7 /\ Height = 6
    /\ Word(128) = 12816 /\ Word(130) = 30292
    /\ Out(4, 4, 3) = 0 /\ Out(5, 4, 3) = 17 /\ Out(6, 4, 3) = 34
    /\ Out(4, 5, 3) = 68 /\ Out(5, 5, 3) = 85 /\ Out(6, 5, 3) = 102
    /\ Out(3, 3, 3) = 255

---------------------------------------------------------------------------
(* Gradient texels, read off the file *)

\* bit n of the little-endian stream of bytes at o
Bit(o, n) == (Byte(o + n \div 8) \div Pow2(n % 8)) % 2

\* triplet k of that stream: bits 3 k, 3 k + 1, 3 k + 2
Triplet(o, k) == Bit(o, 3 * k) + 2 * Bit(o, 3 * k + 1) + 4 * Bit(o, 3 * k + 2)

\* the gradient-coded channels: the format, the output channel, and where in
\* the texel's block the channel's 8 bytes start
GradientChannels == {<<"DXT5", 3, 0>>, <<"BC4", 0, 0>>, <<"BC5", 0, 0>>, <<"BC5", 1, 8>>}

\* the tile of texel (X, Y) lies wholly inside the image
WholeTile(X, Y) == 4 * (X \div 4) + 4 <= Width /\ 4 * (Y \div 4) + 4 <= Height

(* C14: the 8-entry gradient palette of DXT5 alpha, BC4 and both BC5       *)
(* channels: entries 0 and 1 are a0 and a1; when a0 > a1 entry i is        *)
(* floor(((8-i) a0 + (i-1) a1)/7) for i = 2..7; otherwise, also when       *)
(* a0 = a1, entry i is floor(((6-i) a0 + (i-1) a1)/5) for i = 2..5 and     *)
(* entries 6 and 7 are 0 and 255.  So a0 = 255, a1 = 0 gives               *)
(* floor((8-i) 255/7) at i = 2..7 and a0 = 0, a1 = 255 gives 0 and 255 at  *)
(* 6 and 7.  Read on the texels of whole tiles, whose index is their       *)
(* triplet of the stream; a texel of a clipped tile holds some entry.      *)
C14_GradientPalette ==
    Done =>
        \A gc \in GradientChannels :
            header.format = gc[1] =>
                \A X \in Columns, Y \in Rows :
                    LET o == BlockAt(X, Y) + gc[3]
                        a0 == Byte(o)
                        a1 == Byte(o + 1)
                        v == Out(X, Y, gc[2])
                        i == Triplet(o + 2, 4 * (Y % 4) + (X % 4))
                    IN /\ v \in RampValues(o)
                       /\ WholeTile(X, Y) =>
                             /\ i = 0 => v = a0
                             /\ i = 1 => v = a1
                             /\ (a0 > a1 /\ i >= 2) => v = ((8 - i) * a0 + (i - 1) * a1) \div 7
                             /\ (a0 <= a1 /\ i \in 2..5) => v = ((6 - i) * a0 + (i - 1) * a1) \div 5
                             /\ (a0 <= a1 /\ i = 6) => v = 0
                             /\ (a0 <= a1 /\ i = 7) => v = 255
                             /\ (a0 = 255 /\ a1 = 0 /\ i >= 2) => v = ((8 - i) * 255) \div 7
                             /\ (a0 = 0 /\ a1 = 255 /\ i >= 6) => v = (i - 6) * 255

\* the whole BC4 tile with a0 = 255, a1 = 0 and the indices 0, 1, .., 7 twice
C14_Witness ==
    /\ IsImage("BC4") /\ Width = 4 /\ Height = 4
    /\ Byte(148) = 255 /\ Byte(149) = 0 /\ Byte(150) = 136
    /\ Out(0, 0, 0) = 255 /\ Out(1, 0, 0) = 0 /\ Out(2, 0, 0) = 218 /\ Out(3, 0, 0) = 182
    /\ Out(0, 1, 0) = 145 /\ Out(1, 1, 0) = 109 /\ Out(2, 1, 0) = 72 /\ Out(3, 1, 0) = 36
    /\ Out(2, 3, 0) = 72 /\ Out(3, 3, 0) = 36

\* the value the texel (X, Y) is to hold in a gradient channel whose 8 bytes
\* start gc bytes into its block: the ramp entry, truncated, that triplet
\* 4 py + px of the index stream selects
SelectedValue(X, Y, gc) ==
    LET o == BlockAt(X, Y) + gc
    IN Truncated(Ramp(Byte(o), Byte(o + 1), Triplet(o + 2, 4 * (Y % 4) + (X % 4))))

(* C15: in decodeDXT5, decodeBC4 and decodeBC5 the 3-bit palette index of  *)
(* the texel at (px, py) of a tile is triplet 4 py + px (bits              *)
(* 3 (4 py + px) and the two above) of the block's 48-bit little-endian    *)
(* index stream, for every texel inside the image and every tile, also a   *)
(* tile the image edge clips: each stored value is the palette entry of    *)
(* that triplet.                                                           *)
C15_IndexByPosition ==
    Done =>
        \A gc \in GradientChannels :
            header.format = gc[1] =>
                \A X \in Columns, Y \in Rows : Out(X, Y, gc[2]) = SelectedValue(X, Y, gc[3])

\* the same on the tiles that lie wholly inside the image, where it holds
C15_WholeTiles ==
    Done =>
        \A gc \in GradientChannels :
            header.format = gc[1] =>
                \A X \in Columns, Y \in Rows :
                    WholeTile(X, Y) => Out(X, Y, gc[2]) = SelectedValue(X, Y, gc[3])

\* the tiles decoded so far have taken n bytes each, and nothing else has
\* been read of the block stream
TookPerTile(n) ==
    /\ pc = "tiles" /\ y < Height => offset = ((y \div 4) * TilesAcross + x \div 4) * n
    /\ Done => offset = TilesAcross * ((Height + 3) \div 4) * n
    /\ {o \in reads : o >= header.dataOffset}
          = header.dataOffset .. (header.dataOffset + offset - 1)

(* C16: decodeBC4 consumes exactly 8 bytes per tile, two endpoints and 48  *)
(* index bits and no colour block, and writes every texel inside the image *)
(* as (v, v, v, 255), v being the gradient palette value that the texel's  *)
(* index, triplet 4 py + px of the stream, selects.                        *)
C16_BC4Texels ==
    (pc \in {"tiles", "done"} /\ header.format = "BC4") =>
        /\ TookPerTile(8)
        /\ Done => \A X \in Columns, Y \in Rows :
                      /\ Out(X, Y, 0) = SelectedValue(X, Y, 0)
                      /\ Out(X, Y, 1) = SelectedValue(X, Y, 0)
                      /\ Out(X, Y, 2) = SelectedValue(X, Y, 0)
                      /\ Out(X, Y, 3) = 255

\* what decodeBC4 keeps of it: 8 bytes per tile, grey texels of alpha 255
\* holding an entry of the palette, the selected one on whole tiles
C16_BC4Kept ==
    (pc \in {"tiles", "done"} /\ header.format = "BC4") =>
        /\ TookPerTile(8)
        /\ Done => \A X \in Columns, Y \in Rows :
                      /\ Out(X, Y, 0) \in RampValues(BlockAt(X, Y))
                      /\ WholeTile(X, Y) => Out(X, Y, 0) = SelectedValue(X, Y, 0)
                      /\ Out(X, Y, 1) = Out(X, Y, 0)
                      /\ Out(X, Y, 2) = Out(X, Y, 0)
                      /\ Out(X, Y, 3) = 255

(* C17: decodeBC5 consumes 16 bytes per tile, the first 8 the red block    *)
(* and the next 8 the green block, each decoded as a BC4 block (ramp of    *)
(* its own two endpoints, entry selected by triplet 4 py + px of its own   *)
(* index stream) independently of the other, and writes every texel        *)
(* inside the image as (red value, green value, 0, 255).                   *)
C17_BC5Texels ==
    (pc \in {"tiles", "done"} /\ header.format = "BC5") =>
        /\ TookPerTile(16)
        /\ Done => \A X \in Columns, Y \in Rows :
                      /\ Out(X, Y, 0) = SelectedValue(X, Y, 0)
                      /\ Out(X, Y, 1) = SelectedValue(X, Y, 8)
                      /\ Out(X, Y, 2) = 0
                      /\ Out(X, Y, 3) = 255

\* what decodeBC5 keeps of it: 16 bytes per tile, red from the first 8 and
\* green from the next 8, blue 0 and alpha 255, the selected entries on
\* whole tiles
C17_BC5Kept ==
    (pc \in {"tiles", "done"} /\ header.format = "BC5") =>
        /\ TookPerTile(16)
        /\ Done => \A X \in Columns, Y \in Rows :
                      /\ Out(X, Y, 0) \in RampValues(BlockAt(X, Y))
                      /\ Out(X, Y, 1) \in RampValues(BlockAt(X, Y) + 8)
                      /\ WholeTile(X, Y) =>
                            /\ Out(X, Y, 0) = SelectedValue(X, Y, 0)
                            /\ Out(X, Y, 1) = SelectedValue(X, Y, 8)
                      /\ Out(X, Y, 2) = 0
                      /\ Out(X, Y, 3) = 255

---------------------------------------------------------------------------
(* The encoded buffer, read against the ImageData it was made from *)

Encoded == pc = "encoded"
Texels == imageData.width * imageData.height

\* channel ch (0..3 for R, G, B, A) of texel k of the input
Input(k, ch) == imageData.data[4 * k + ch + 1]

(* C18: for every input whose data holds width*height*4 bytes,             *)
(* DDSEncoder.encode returns a buffer of exactly 128 + width*height*4      *)
(* bytes: the buffer has that length from its allocation on, and no store  *)
(* of the call fails.                                                      *)
C18_EncodedLength ==
    (pc # "encode" /\ Len(imageData.data) = Texels * 4) =>
        /\ pc \in {"body", "encoded"}
        /\ error = NoError
        /\ Len(buffer) = 128 + Texels * 4
        /\ Encoded => offset = Len(buffer)

C18_Witness ==
    /\ Encoded /\ imageData.width = 3 /\ imageData.height = 2
    /\ Len(imageData.data) = 24 /\ Len(buffer) = 152

(* C19: in the encoded buffer the little-endian 32-bit values at offsets   *)
(* 12 and 16 are the input's height and width, and for every texel k the   *)
(* four bytes at 128 + 4 k are the input's (B, G, R, A), so that undoing   *)
(* the swap gives back R, G, B, A; the 1x1 image (10, 20, 30, 40) encodes  *)
(* to 132 bytes ending in 30, 20, 10, 40.                                  *)
C19_EncodeRoundTrip ==
    Encoded =>
        /\ Field(12) = imageData.height
        /\ Field(16) = imageData.width
        /\ \A k \in 0..(Texels - 1) :
              /\ Byte(128 + 4 * k) = Input(k, 2)
              /\ Byte(128 + 4 * k + 1) = Input(k, 1)
              /\ Byte(128 + 4 * k + 2) = Input(k, 0)
              /\ Byte(128 + 4 * k + 3) = Input(k, 3)
              /\ <<Byte(128 + 4 * k + 2), Byte(128 + 4 * k + 1), Byte(128 + 4 * k),
                   Byte(128 + 4 * k + 3)>>
                    = <<Input(k, 0), Input(k, 1), Input(k, 2), Input(k, 3)>>
        /\ imageData = [width |-> 1, height |-> 1, data |-> <<10, 20, 30, 40>>] =>
              /\ Len(buffer) = 132
              /\ <<Byte(128), Byte(129), Byte(130), Byte(131)>> = <<30, 20, 10, 40>>

C19_Witness ==
    /\ Encoded /\ imageData.data = <<10, 20, 30, 40>>
    /\ Len(buffer) = 132 /\ Field(12) = 1 /\ Field(16) = 1
    /\ buffer[129] = 30 /\ buffer[130] = 20 /\ buffer[131] = 10 /\ buffer[132] = 40

\* the header bytes that no field of the encoder's header covers
UnwrittenHeaderBytes == (24..75) \cup (112..127)

(* C20: the 128-byte header written by DDSEncoder.encode always holds      *)
(* magic 0x20534444, header size 124, flags 0x1007, height, width, pitch   *)
(* width*4, the pixel format (size 32, flags 0x41, FourCC 0, bit count 32, *)
(* masks R = 0x00FF0000, G = 0x0000FF00, B = 0x000000FF, A = 0xFF000000)   *)
(* and caps 0x1000, and every other header byte is zero: no mip count and  *)
(* no DX10 extension is written.                                           *)
C20_EncodedHeader ==
    pc \in {"body", "encoded"} =>
        /\ Len(buffer) >= 128
        /\ Field(0) = 542327876
        /\ Field(4) = 124
        /\ Field(8) = 4103
        /\ Field(12) = imageData.height
        /\ Field(16) = imageData.width
        /\ Field(20) = imageData.width * 4
        /\ Field(76) = 32
        /\ Field(80) = 65
        /\ Field(84) = 0
        /\ Field(88) = 32
        /\ Field(92) = 16711680
        /\ Field(96) = 65280
        /\ Field(100) = 255
        /\ <<Byte(104), Byte(105), Byte(106), Byte(107)>> = <<0, 0, 0, 255>>
        /\ Field(108) = 4096
        /\ \A o \in UnwrittenHeaderBytes : Byte(o) = 0
        /\ Field(28) = 0
        /\ Field(84) # 808540228
        /\ Len(buffer) = 128 + Texels * 4

C20_Witness ==
    /\ Encoded /\ imageData.width = 4 /\ imageData.height = 3
    /\ Field(8) = 4103 /\ Field(12) = 3 /\ Field(16) = 4 /\ Field(20) = 16
    /\ Byte(107) = 255 /\ Byte(94) = 255 /\ Byte(97) = 255 /\ Byte(100) = 255

---------------------------------------------------------------------------
(* The mip-map count *)

\* bit 0x20000 of the 32-bit field at offset 20
MipBit == (Field(20) \div 131072) % 2 = 1

(* C21: parseHeader returns mipmapCount >= 1 for every header it accepts:  *)
(* when bit 0x20000 of the 32-bit field at offset 20 is set, mipmapCount   *)
(* is the larger of 1 and the value at offset 28; when the bit is clear,   *)
(* mipmapCount is 1 whatever offset 28 holds.                              *)
C21_MipmapCount ==
    (Parsed /\ header # NoHeader) =>
        /\ header.mipmapCount >= 1
        /\ MipBit => header.mipmapCount = (IF Field(28) >= 1 THEN Field(28) ELSE 1)
        /\ ~MipBit => header.mipmapCount = 1

\* the bit set over a count of 0: the count is clamped to 1
C21_Witness ==
    /\ pc = "begin" /\ header # NoHeader
    /\ Field(20) = 131072 /\ Field(28) = 0 /\ header.mipmapCount = 1

---------------------------------------------------------------------------
(* A session: DDSDecoder.decode and DDSEncoder.encode are static methods   *)
(* called one after another by script.js.  A call is given its argument    *)
(* and starts at the top of the method; whatever the earlier calls left in *)
(* the variables is still there, and the outcome of every finished call is *)
(* recorded in memo.                                                       *)

MaxCalls == 3

\* the argument of a call
DecodeCall(file) == [kind |-> "decode", file |-> file, image |-> NoImageData]
EncodeCall(image) == [kind |-> "encode", file |-> << >>, image |-> image]

\* no call is running
Returned == pc \in {"done", "failed", "encoded"}
Idle == pc = "idle" \/ Returned

\* what the finished call gave its caller: the exception thrown, the image
\* decode returned or the buffer encode returned
Outcome ==
    [error |-> IF pc = "failed" THEN error ELSE NoError,
     image |-> IF pc = "done" THEN result ELSE NoResult,
     file |-> IF pc = "encoded" THEN buffer ELSE << >>]

\* the finished calls, the one that has just returned included
Finished == IF Returned THEN Append(memo, [call |-> given, outcome |-> Outcome]) ELSE memo

\* the arguments of the finished calls
Used == {Finished[i].call : i \in DOMAIN Finished}

\* block k (from 0) of a block stream replaced by other bytes
Other(b) == (b * 7 + 13) % 256
WithBlock(blocks, k, size) ==
    [i \in DOMAIN blocks |->
        IF (i - 1) \div size = k THEN Other(blocks[i]) ELSE blocks[i]]

\* the files of a session: a 5x5 image (four tiles, three of them clipped)
\* in each format, the same file with one block replaced, for each block,
\* and a file of a wrong magic number
SessionFormats ==
    {<<FOURCC_DXT1, 0, 8>>, <<FOURCC_DXT3, 0, 16>>, <<FOURCC_DXT5, 0, 16>>,
     <<FOURCC_DX10, 80, 8>>, <<FOURCC_DX10, 83, 16>>}
SessionBlocks(size) ==
    {Noise(4 * size, 0)} \cup {WithBlock(Noise(4 * size, 0), k, size) : k \in 0..3}
SessionFiles ==
    UNION {{File(DDS_MAGIC, 5, 5, 0, 0, 4, kind[1], kind[2], blocks) :
               blocks \in SessionBlocks(kind[3])} : kind \in SessionFormats}
    \cup {File(0, 4, 4, 0, 0, 4, FOURCC_DXT1, 0, Noise(8, 0))}

\* the images of a session
SessionImages ==
    {[width |-> 2, height |-> 1, data |-> Noise(8, 0)],
     [width |-> 1, height |-> 2, data |-> Noise(8, 1)]}

\* the first two calls of a session are made on any argument, a later one
\* on an argument already used
MayCall(call) == calls < 2 \/ call \in Used

\* DDSDecoder.decode(file): the call
CallDecode ==
    /\ Idle
    /\ calls < MaxCalls
    /\ \E file \in SessionFiles :
        /\ MayCall(DecodeCall(file))
        /\ given' = DecodeCall(file)
        /\ buffer' = file
    /\ memo' = Finished
    /\ calls' = calls + 1
    /\ pc' = "parse"
    /\ reads' = {}
    /\ oob' = {}
    /\ UNCHANGED <<imageData, dataIndex, header, error, result, x, y, offset, rgba, wlog>>
    /\ UNCHANGED <<importVars, editorVars>>

\* DDSEncoder.encode(image): the call
CallEncode ==
    /\ Idle
    /\ calls < MaxCalls
    /\ \E image \in SessionImages :
        /\ MayCall(EncodeCall(image))
        /\ given' = EncodeCall(image)
        /\ imageData' = image
    /\ memo' = Finished
    /\ calls' = calls + 1
    /\ pc' = "encode"
    /\ reads' = {}
    /\ oob' = {}
    /\ UNCHANGED <<buffer, dataIndex, header, error, result, x, y, offset, rgba, wlog>>
    /\ UNCHANGED <<importVars, editorVars>>

InitSession ==
    /\ pc = "idle"
    /\ buffer = << >>
    /\ header = NoHeader
    /\ error = NoError
    /\ result = NoResult
    /\ x = 0
    /\ y = 0
    /\ offset = 0
    /\ rgba = << >>
    /\ wlog = << >>
    /\ oob = {}
    /\ reads = {}
    /\ imageData = NoImageData
    /\ dataIndex = 0
    /\ NoSession
    /\ NoImport
    /\ NoEditor

NextSession ==
    \/ CallDecode
    \/ CallEncode
    \/ ParseHeader
    \/ DecodeBegin
    \/ DecodeDXT1
    \/ DecodeDXT3
    \/ DecodeDXT5
    \/ DecodeBC4
    \/ DecodeBC5
    \/ DecodeReturn
    \/ EncodeHeader
    \/ EncodeTexel
    \/ EncodeReturn

SpecSession == InitSession /\ [][NextSession]_vars

---------------------------------------------------------------------------
(* C22: the codec is pure.  While a call runs its argument is as it was    *)
(* given (decode does not modify its buffer, encode does not modify its    *)
(* image), and when a call has returned its outcome (the image, the buffer *)
(* or the exception) is the outcome of every earlier call of the session   *)
(* on the same argument, whatever calls of decode and encode were made in  *)
(* between, the first call of a session having run in isolation.           *)

C22_Pure ==
    /\ (pc # "idle" /\ given.kind = "decode") => buffer = given.file
    /\ (pc # "idle" /\ given.kind = "encode") => imageData = given.image
    /\ Returned =>
        \A i \in DOMAIN memo : memo[i].call = given => memo[i].outcome = Outcome

\* a decode that returned an image, after a decode of the same file and an
\* encode in between
C22_Witness ==
    /\ pc = "done"
    /\ Len(memo) = 2
    /\ memo[1].call = given
    /\ memo[2].call.kind = "encode"
    /\ memo[2].outcome.file # << >>
    /\ memo[1].outcome.image = result

---------------------------------------------------------------------------
(* C23: tile independence.  Every output byte is stored by one tile only,  *)
(* the tile of its texel; and when decode returns an image of a file that  *)
(* has the header of a file decoded earlier and differs from it only in    *)
(* the bytes of one block, the two images are equal at every texel outside *)
(* that block's 4x4 tile.                                                  *)

\* the tile (numbered in stream order) of the texel at (X, Y)
TileOf(X, Y) == (Y \div 4) * ((header.width + 3) \div 4) + X \div 4

\* the files f and g have the same length and header, and every byte in
\* which they differ is a byte of block k
DiffersOnlyInBlock(f, g, k) ==
    /\ Len(f) = Len(g)
    /\ \A i \in 1..Len(f) :
        f[i] # g[i] =>
            /\ i > header.dataOffset
            /\ (i - 1 - header.dataOffset) \div ExpectedBlockSize = k

\* the two images have the same four bytes at (X, Y)
SameTexel(a, b, X, Y) ==
    \A ch \in 0..3 :
        a.data[4 * (Y * header.width + X) + ch] = b.data[4 * (Y * header.width + X) + ch]

C23_TileIndependence ==
    /\ (pc \in {"tiles", "done"} /\ given.kind = "decode") =>
        \A i \in DOMAIN wlog : \A n \in DOMAIN wlog[i] :
            /\ i \div 4 = wlog[i][n][2] * header.width + wlog[i][n][1]
            /\ TileOf(wlog[i][n][1], wlog[i][n][2]) = TileOf(wlog[i][1][1], wlog[i][1][2])
    /\ pc = "done" =>
        \A i \in DOMAIN memo :
            (memo[i].call.kind = "decode" /\ memo[i].outcome.image.returned) =>
                \A k \in 0..(TileCount(header.width, header.height) - 1) :
                    DiffersOnlyInBlock(memo[i].call.file, buffer, k) =>
                        \A X \in 0..(header.width - 1), Y \in 0..(header.height - 1) :
                            TileOf(X, Y) # k => SameTexel(memo[i].outcome.image, result, X, Y)

\* a BC5 image returned after the image of a file that differs in block 1
\* only, the two images differing at (4, 0), a texel of tile 1
C23_Witness ==
    /\ pc = "done"
    /\ header.format = "BC5"
    /\ \E i \in DOMAIN memo :
        /\ memo[i].call.kind = "decode"
        /\ memo[i].outcome.image.returned
        /\ memo[i].call.file # buffer
        /\ DiffersOnlyInBlock(memo[i].call.file, buffer, 1)
        /\ ~SameTexel(memo[i].outcome.image, result, 4, 0)

---------------------------------------------------------------------------
(* The import of a DDS file by script.js: loadBaseSkin and the reader      *)
(* callback of addLayersFromFiles call DDSDecoder.decode inside a try,     *)
(* build an ImageData of the result and report a failure with alert().     *)

\* the message loadBaseSkin throws for every exception of its inner try
MsgBaseSkin == "Unsupported Texture Format.\n\nThe file uses BC7 compression, which browsers cannot read.\n\nPlease convert this skin to DXT5 (BC3) format using Paint.NET or Photoshop and upload it manually.\n\nSee the guide for more information."

\* the exception of new ImageData(data, width, height) for an image of no
\* texels; the message is the browser's
ImageDataError ==
    [name |-> "IndexSizeError", message |-> "The source width or height is zero", arg |-> 0]

\* alert(prefix + message), the message's interpolated number kept apart
Alert(prefix, e) == [prefix |-> prefix, message |-> e.message, arg |-> e.arg]

\* new ImageData(ddsData.data, ddsData.width, ddsData.height), then the
\* canvas and the Image whose onload sets the base layer
NewImageData ==
    /\ pc = "done"
    /\ caller \in {"loadBaseSkin", "addLayersFromFiles"}
    /\ IF result.width = 0 \/ result.height = 0
       THEN /\ pc' = "failed"
            /\ error' = ImageDataError
       ELSE /\ pc' = "image"
            /\ UNCHANGED error
    /\ UNCHANGED <<buffer, header, result, x, y, offset, rgba, wlog, oob, reads,
                   imageData, dataIndex>>
    /\ UNCHANGED <<sessionVars, importVars, editorVars>>

\* LoadBaseSkinCatch with the message of the exception caught
LoadBaseSkinCatchOwnMessage ==
    /\ pc = "failed"
    /\ caller = "loadBaseSkin"
    /\ alerted' = Alert("Error: ", error)
    /\ pc' = "alerted"
    /\ UNCHANGED <<buffer, header, error, result, x, y, offset, rgba, wlog, oob, reads,
                   imageData, dataIndex, caller>>
    /\ UNCHANGED <<sessionVars, editorVars>>

\* loadBaseSkin: catch (decodeErr) { throw new Error(...) } and the outer
\* catch (e) { alert("Error: " + e.message) }
LoadBaseSkinCatch ==
    /\ pc = "failed"
    /\ caller = "loadBaseSkin"
    /\ alerted' = Alert("Error: ", Err(MsgBaseSkin, 0))
    /\ pc' = "alerted"
    /\ UNCHANGED <<buffer, header, error, result, x, y, offset, rgba, wlog, oob, reads,
                   imageData, dataIndex, caller>>
    /\ UNCHANGED <<sessionVars, editorVars>>

\* addLayersFromFiles: catch (err) { alert("Error loading DDS: " + err.message) }
AddLayersFromFilesCatch ==
    /\ pc = "failed"
    /\ caller = "addLayersFromFiles"
    /\ alerted' = Alert("Error loading DDS: ", error)
    /\ pc' = "alerted"
    /\ UNCHANGED <<buffer, header, error, result, x, y, offset, rgba, wlog, oob, reads,
                   imageData, dataIndex, caller>>
    /\ UNCHANGED <<sessionVars, editorVars>>

\* the sizes of the files cut short: two tiles of which one is clipped, no
\* tile at all, one whole tile
CutSizes == {<<5, 2>>, <<0, 3>>, <<4, 4>>}

\* a file of each format, legacy and DX10, cut after each number of bytes
\* from none to all
InitCut ==
    \E kind \in SessionFormats \cup {<<FOURCC_DX10, 71, 8>>}, size \in CutSizes :
        LET file == File(DDS_MAGIC, size[2], size[1], 0, 0, 4, kind[1], kind[2],
                         Noise(TileCount(size[1], size[2]) * kind[3], 0))
        IN \E n \in 0..Len(file) : buffer = SubSeq(file, 1, n)

InitImport ==
    /\ InitCut \/ InitHeaders \/ InitDxgi
    /\ caller \in {"loadBaseSkin", "addLayersFromFiles"}
    /\ alerted = NoAlert
    /\ pc = "parse"
    /\ header = NoHeader
    /\ error = NoError
    /\ result = NoResult
    /\ x = 0
    /\ y = 0
    /\ offset = 0
    /\ rgba = << >>
    /\ wlog = << >>
    /\ oob = {}
    /\ reads = {}
    /\ imageData = NoImageData
    /\ dataIndex = 0
    /\ NoSession
    /\ NoEditor

NextImport ==
    \/ ParseHeader
    \/ DecodeBegin
    \/ DecodeDXT1
    \/ DecodeDXT3
    \/ DecodeDXT5
    \/ DecodeBC4
    \/ DecodeBC5
    \/ DecodeReturn
    \/ NewImageData
    \/ LoadBaseSkinCatch
    \/ AddLayersFromFilesCatch

SpecImport == InitImport /\ [][NextImport]_vars

---------------------------------------------------------------------------
(* C24: reads are bounds-checked.  When the file is shorter than decode    *)
(* needs (under 88 bytes, under 132 with FourCC DX10, or under dataOffset  *)
(* + ceil(w/4) * ceil(h/4) * blockSize), decode returns no image: its tile *)
(* loop does not reach its end, and where it stops it has thrown an Error  *)
(* or a RangeError; and an image is returned only when every block of the  *)
(* stream was read whole and no byte past the end was read.                *)

\* the number of bytes decode needs of the file
Needed ==
    IF Len(buffer) < 88 THEN 88
    ELSE IF IsDX10 /\ Len(buffer) < 132 THEN 132
    ELSE BlockStart + TileCount(Width, Height)
                        * (IF ExpectedFormat \in {"DXT1", "BC4"} THEN 8 ELSE 16)

Short == Len(buffer) < Needed

C24_BoundsChecked ==
    /\ Short => /\ pc \notin {"done", "image"}
                /\ result = NoResult
                /\ pc \in {"failed", "alerted"} => error.name \in {"Error", "RangeError"}
                /\ pc = "tiles" => (y < header.height /\ header.format = ExpectedFormat)
    /\ result.returned =>
        /\ reads \subseteq 0..(Len(buffer) - 1)
        /\ Span(header.dataOffset,
                TileCount(header.width, header.height) * ExpectedBlockSize) \subseteq reads

\* a DXT5 file of 5x2 texels cut one byte short of its second block: the
\* first block was decoded and the read of the second threw
C24_Witness ==
    /\ pc = "failed"
    /\ Len(buffer) = 159
    /\ header.format = "DXT5"
    /\ offset = 16
    /\ error = RangeError
    /\ result = NoResult

---------------------------------------------------------------------------
(* C26: when decode throws in loadBaseSkin, whatever the exception, the    *)
(* alert shows "Error: " and the BC7 conversion message; when it throws in *)
(* addLayersFromFiles the alert shows "Error loading DDS: " and the        *)
(* message of the exception thrown.  The causes reached are the invalid    *)
(* magic, the missing FourCC flag, the unsupported FourCC, the unsupported *)
(* DXGI format, the BC7 format and the read outside the buffer.            *)

\* the messages and names of the exceptions decode throws
DecodeErrors ==
    {<<"Error", MsgInvalidMagic>>, <<"Error", MsgNoFourCC>>, <<"Error", MsgUnsupportedFourCC>>,
     <<"Error", MsgUnsupportedDxgi>>, <<"Error", MsgBC7>>,
     <<"RangeError", RangeError.message>>}

C26_ErrorReporting ==
    /\ pc = "failed" => alerted = NoAlert
    /\ pc \in {"failed", "alerted"} =>
        <<error.name, error.message>> \in DecodeErrors \cup {<<"IndexSizeError", ImageDataError.message>>}
    /\ (pc = "alerted" /\ caller = "loadBaseSkin") =>
        alerted = [prefix |-> "Error: ", message |-> MsgBC7, arg |-> 0]
    /\ (pc = "alerted" /\ caller = "addLayersFromFiles") =>
        alerted = [prefix |-> "Error loading DDS: ", message |-> error.message,
                   arg |-> error.arg]

\* loadBaseSkin has shown the BC7 message for a file cut short, whose
\* decode threw a RangeError
C26_Witness ==
    /\ pc = "alerted"
    /\ caller = "loadBaseSkin"
    /\ error = RangeError
    /\ Short
    /\ alerted.message = MsgBC7

---------------------------------------------------------------------------
(* Export and re-import: exportImage offers the buffer DDSEncoder.encode   *)
(* returned as a .dds file, and addLayersFromFiles gives the bytes of a    *)
(* .dds file to DDSDecoder.decode.                                         *)

\* the exported file is read back by the reader callback of addLayersFromFiles
Reimport ==
    /\ pc = "encoded"
    /\ caller = "none"
    /\ caller' = "addLayersFromFiles"
    /\ pc' = "parse"
    /\ UNCHANGED <<buffer, header, error, result, x, y, offset, rgba, wlog, oob, reads,
                   imageData, dataIndex, alerted>>
    /\ UNCHANGED <<sessionVars, editorVars>>

NextRoundTrip ==
    \/ EncodeHeader
    \/ EncodeTexel
    \/ EncodeReturn
    \/ Reimport
    \/ ParseHeader
    \/ AddLayersFromFilesCatch

SpecRoundTrip == InitEncode /\ [][NextRoundTrip]_vars

---------------------------------------------------------------------------
(* C25: decode(encode(x)) fails for every image x: the encoder stores the  *)
(* pixel-format flags 0x41 at offset 80, without bit 0x4, so parseHeader   *)
(* throws "Only Compressed DDS (FourCC) supported", decode goes no further *)
(* and returns nothing, and the re-import of an exported file is reported  *)
(* with that message.                                                      *)

C25_RoundTripFails ==
    /\ pc = "encoded" => (Field(80) = 65 /\ ~FourCCFlag)
    /\ caller = "addLayersFromFiles" =>
        /\ pc \in {"parse", "failed", "alerted"}
        /\ result = NoResult
        /\ pc # "parse" => (error = Err(MsgNoFourCC, 0) /\ header = NoHeader)
        /\ pc = "alerted" =>
            alerted = [prefix |-> "Error loading DDS: ", message |-> MsgNoFourCC, arg |-> 0]

\* the 2x2 image of the first seed was exported, read back and refused
C25_Witness ==
    /\ pc = "alerted"
    /\ imageData = [width |-> 2, height |-> 2, data |-> Noise(16, 0)]
    /\ Len(buffer) = 144
    /\ error.message = MsgNoFourCC
    /\ alerted.message = MsgNoFourCC

---------------------------------------------------------------------------
(* The editor of script.js: class LiveryEditor.  A layer is held by the    *)
(* fields the layer operations read and write: id (a Date.now() number, 0  *)
(* for the base layer's 'base'), type, isBase, locked, closed, mirrorOf    *)
(* and mirrorLayerId.  Positions in layers count from 1, JavaScript's      *)
(* index i being position i + 1.                                           *)

\* this.maxHistory = 50
maxHistory == 50

MaxClock == 2
MaxOps == 4

\* id: 'base'
BaseId == 0

\* the layer setBaseLayer adds
BaseLayer ==
    [id |-> BaseId, type |-> "image", isBase |-> TRUE, locked |-> TRUE, closed |-> FALSE,
     mirrorOf |-> null, mirrorLayerId |-> null]

\* the layer addShapeLayer, finalizeAddText and createPathLayer build
NewLayer(id, type) ==
    [id |-> id, type |-> type, isBase |-> FALSE, locked |-> FALSE, closed |-> FALSE,
     mirrorOf |-> null, mirrorLayerId |-> null]

\* the values Date.now() may return: not before the last one read
Times == Max(now, 1)..MaxClock

\* layers.findIndex(l => l.id === id) + 1: the first position, 0 for none
findIndex(ls, id) ==
    IF \E i \in DOMAIN ls : ls[i].id = id
    THEN CHOOSE i \in DOMAIN ls : ls[i].id = id /\ \A j \in 1..(i - 1) : ls[j].id # id
    ELSE 0

\* layers.findIndex(l => l.isBase) + 1
findBase(ls) ==
    IF \E i \in DOMAIN ls : ls[i].isBase
    THEN CHOOSE i \in DOMAIN ls : ls[i].isBase /\ \A j \in 1..(i - 1) : ~ls[j].isBase
    ELSE 0

\* layers.splice(i - 1, 1)
RemoveAt(ls, i) == SubSeq(ls, 1, i - 1) \o SubSeq(ls, i + 1, Len(ls))

\* layers.splice(start, 0, item), start being a JavaScript index: a
\* negative start counts from the end, and is 0 when that falls before it
Splice(ls, start, item) ==
    LET from == IF start < 0 THEN Max(Len(ls) + start, 0)
                ELSE IF start > Len(ls) THEN Len(ls) ELSE start
    IN SubSeq(ls, 1, from) \o <<item>> \o SubSeq(ls, from + 1, Len(ls))

\* saveState without the limit of the history size
saveStateUncapped(hist, index, ls) ==
    [history |-> Append(SubSeq(hist, 1, index + 1), [layers |-> ls]),
     historyIndex |-> index + 1]

\* saveState without the removal of the states after the current index
saveStateKeepsRedo(hist, index, ls) ==
    LET pushed == Append(hist, [layers |-> ls])
    IN IF Len(pushed) > maxHistory
       THEN [history |-> Tail(pushed), historyIndex |-> index]
       ELSE [history |-> pushed, historyIndex |-> index + 1]

\* saveState: history.slice(0, historyIndex + 1), push of the cloned layers,
\* then shift when over maxHistory, historyIndex++ otherwise
saveState(hist, index, ls) ==
    LET pushed == Append(SubSeq(hist, 1, index + 1), [layers |-> ls])
    IN IF Len(pushed) > maxHistory
       THEN [history |-> Tail(pushed), historyIndex |-> index]
       ELSE [history |-> pushed, historyIndex |-> index + 1]

\* one more layer operation, of the MaxOps a session makes
Operation == ops < MaxOps /\ ops' = ops + 1

\* the active layer's position when it is one the layer operations accept:
\* activeLayerId set, found, and not the base layer; 0 otherwise
Editable ==
    LET i == findIndex(layers, activeLayerId)
    IN IF activeLayerId # null /\ i # 0 /\ ~layers[i].isBase THEN i ELSE 0

\* layers.push(layer); saveState(); setActiveLayer(layer.id)
AddLayer(type) ==
    /\ \E t \in Times :
        LET ls == Append(layers, NewLayer(t, type))
            saved == saveState(history, historyIndex, ls)
        IN /\ layers' = ls
           /\ history' = saved.history
           /\ historyIndex' = saved.historyIndex
           /\ activeLayerId' = t
           /\ now' = t
    /\ UNCHANGED clipboard
    /\ UNCHANGED <<buffer, pc, header, error, result, x, y, offset, rgba, wlog, oob, reads,
                   imageData, dataIndex, sessionVars, importVars>>

\* addShapeLayer(type)
AddShapeLayer ==
    /\ Operation
    /\ AddLayer("shape")

\* finalizeAddText(text)
FinalizeAddText ==
    /\ Operation
    /\ AddLayer("text")

CopyActiveLayer ==
    /\ Operation
    /\ Editable # 0
    /\ clipboard' = [layers[Editable] EXCEPT !.id = null, !.mirrorLayerId = null]
    /\ UNCHANGED <<layers, activeLayerId, history, historyIndex, now>>
    /\ UNCHANGED <<buffer, pc, header, error, result, x, y, offset, rgba, wlog, oob, reads,
                   imageData, dataIndex, sessionVars, importVars>>

\* the clone is put above the active layer, or on top when none is found;
\* setActiveLayer, then saveState
PasteLayer ==
    /\ clipboard # NoLayer
    /\ Operation
    /\ \E t \in Times :
        LET layer == [clipboard EXCEPT !.id = t]
            activeIndex == findIndex(layers, activeLayerId)
            ls == IF activeIndex # 0 THEN Splice(layers, activeIndex, layer)
                  ELSE Append(layers, layer)
            saved == saveState(history, historyIndex, ls)
        IN /\ layers' = ls
           /\ history' = saved.history
           /\ historyIndex' = saved.historyIndex
           /\ activeLayerId' = t
           /\ now' = t
    /\ UNCHANGED clipboard
    /\ UNCHANGED <<buffer, pc, header, error, result, x, y, offset, rgba, wlog, oob, reads,
                   imageData, dataIndex, sessionVars, importVars>>

DeleteActiveLayer ==
    /\ Operation
    /\ Editable # 0
    /\ layers' = RemoveAt(layers, Editable)
    /\ activeLayerId' = null
    /\ UNCHANGED <<clipboard, history, historyIndex, now>>
    /\ UNCHANGED <<buffer, pc, header, error, result, x, y, offset, rgba, wlog, oob, reads,
                   imageData, dataIndex, sessionVars, importVars>>

\* restoreState(state): this.layers = state.layers.map(...)
restoreState(state) == state.layers

Undo ==
    /\ historyIndex > 0
    /\ historyIndex' = historyIndex - 1
    /\ layers' = restoreState(history[historyIndex' + 1])
    /\ UNCHANGED <<activeLayerId, clipboard, history, now, ops>>
    /\ UNCHANGED <<buffer, pc, header, error, result, x, y, offset, rgba, wlog, oob, reads,
                   imageData, dataIndex, sessionVars, importVars>>

Redo ==
    /\ historyIndex < Len(history) - 1
    /\ historyIndex' = historyIndex + 1
    /\ layers' = restoreState(history[historyIndex' + 1])
    /\ UNCHANGED <<activeLayerId, clipboard, history, now, ops>>
    /\ UNCHANGED <<buffer, pc, header, error, result, x, y, offset, rgba, wlog, oob, reads,
                   imageData, dataIndex, sessionVars, importVars>>

\* the editor as constructed, no codec call under way
InitEditor ==
    /\ NoEditor
    /\ pc = "idle"
    /\ buffer = << >>
    /\ header = NoHeader
    /\ error = NoError
    /\ result = NoResult
    /\ x = 0
    /\ y = 0
    /\ offset = 0
    /\ rgba = << >>
    /\ wlog = << >>
    /\ oob = {}
    /\ reads = {}
    /\ imageData = NoImageData
    /\ dataIndex = 0
    /\ NoSession
    /\ NoImport

\* the layer-adding operations, deleteActiveLayer, undo and redo
NextLayers ==
    \/ AddShapeLayer
    \/ FinalizeAddText
    \/ CopyActiveLayer
    \/ PasteLayer
    \/ DeleteActiveLayer
    \/ Undo
    \/ Redo

SpecLayers == InitEditor /\ [][NextLayers]_vars

---------------------------------------------------------------------------
(* C29: after any sequence of addShapeLayer, finalizeAddText, pasteLayer,  *)
(* deleteActiveLayer, undo and redo, activeLayerId is null or the id of a  *)
(* layer in layers.                                                        *)

C29_ActiveLayerPresent ==
    activeLayerId = null \/ \E i \in DOMAIN layers : layers[i].id = activeLayerId

\* what holds: the active layer is null or a layer of some state of the
\* history, or the layer just added
C29_ActiveLayerKnown ==
    \/ activeLayerId = null
    \/ \E i \in DOMAIN layers : layers[i].id = activeLayerId
    \/ \E h \in DOMAIN history : \E i \in DOMAIN history[h].layers :
          history[h].layers[i].id = activeLayerId

---------------------------------------------------------------------------
(* The base layer and the other layer operations *)

\* setBaseLayer(img, name): an existing base layer gets the image, name,
\* size and position (none of them held here); otherwise the base layer is
\* put first
SetBaseLayer ==
    /\ Operation
    /\ findBase(layers) = 0
    /\ layers' = <<BaseLayer>> \o layers
    /\ UNCHANGED <<activeLayerId, clipboard, history, historyIndex, now>>
    /\ UNCHANGED <<buffer, pc, header, error, result, x, y, offset, rgba, wlog, oob, reads,
                   imageData, dataIndex, sessionVars, importVars>>

\* the click on a layer of the list: setActiveLayer(layer.id)
SetActiveLayer ==
    /\ Operation
    /\ \E i \in DOMAIN layers :
        /\ layers[i].id # activeLayerId
        /\ activeLayerId' = layers[i].id
    /\ UNCHANGED <<layers, clipboard, history, historyIndex, now>>
    /\ UNCHANGED <<buffer, pc, header, error, result, x, y, offset, rgba, wlog, oob, reads,
                   imageData, dataIndex, sessionVars, importVars>>

\* the clone is put above the original and made active
DuplicateActiveLayer ==
    /\ Editable # 0
    /\ Operation
    /\ \E t \in Times :
        /\ layers' = Splice(layers, Editable, [layers[Editable] EXCEPT !.id = t])
        /\ activeLayerId' = t
        /\ now' = t
    /\ UNCHANGED <<clipboard, history, historyIndex>>
    /\ UNCHANGED <<buffer, pc, header, error, result, x, y, offset, rgba, wlog, oob, reads,
                   imageData, dataIndex, sessionVars, importVars>>

\* createMirrorLayer(axis): the mirror is a copy of the source as it was,
\* with mirrorOf; the source gets mirrorLayerId; the mirror is put on top
CreateMirrorLayer ==
    /\ Editable # 0
    /\ Operation
    /\ \E t \in Times :
        LET source == layers[Editable]
            mirror == [source EXCEPT !.id = t, !.mirrorOf = source.id]
        IN /\ layers' = Append([layers EXCEPT ![Editable].mirrorLayerId = t], mirror)
           /\ now' = t
    /\ UNCHANGED <<activeLayerId, clipboard, history, historyIndex>>
    /\ UNCHANGED <<buffer, pc, header, error, result, x, y, offset, rgba, wlog, oob, reads,
                   imageData, dataIndex, sessionVars, importVars>>

ToggleLockActiveLayer ==
    /\ Operation
    /\ Editable # 0
    /\ layers' = [layers EXCEPT ![Editable].locked = ~layers[Editable].locked]
    /\ UNCHANGED <<activeLayerId, clipboard, history, historyIndex, now>>
    /\ UNCHANGED <<buffer, pc, header, error, result, x, y, offset, rgba, wlog, oob, reads,
                   imageData, dataIndex, sessionVars, importVars>>

\* reorderActiveLayer(dir): to the top, or to just above the base layer
ReorderActiveLayer ==
    /\ Operation
    /\ Editable # 0
    /\ \E dir \in {"front", "back"} :
        LET item == layers[Editable]
            rest == RemoveAt(layers, Editable)
        IN layers' = IF dir = "front" THEN Append(rest, item)
                     ELSE Splice(rest, (findBase(rest) - 1) + 1, item)
    /\ UNCHANGED <<activeLayerId, clipboard, history, historyIndex, now>>
    /\ UNCHANGED <<buffer, pc, header, error, result, x, y, offset, rgba, wlog, oob, reads,
                   imageData, dataIndex, sessionVars, importVars>>

\* the drop of a dragged layer on a layer of the list, neither being the
\* base layer, which has no drag and drop listeners.  The listener's test
\* draggedId !== targetId compares the string of dataTransfer with the
\* number layer.id and is true also when a layer is dropped on itself.
\* reorderLayers(draggedId, targetId) then finds both with ==, takes the
\* dragged layer out and splices it in at the target's index, -1 when the
\* target is no longer found.
ReorderLayers ==
    /\ Operation
    /\ \E d \in DOMAIN layers, g \in DOMAIN layers :
        /\ ~layers[d].isBase
        /\ ~layers[g].isBase
        /\ LET draggedIndex == findIndex(layers, layers[d].id)
               targetId == layers[g].id
               rest == RemoveAt(layers, draggedIndex)
           IN layers' = Splice(rest, findIndex(rest, targetId) - 1, layers[draggedIndex])
    /\ UNCHANGED <<activeLayerId, clipboard, history, historyIndex, now>>
    /\ UNCHANGED <<buffer, pc, header, error, result, x, y, offset, rgba, wlog, oob, reads,
                   imageData, dataIndex, sessionVars, importVars>>

NextEditor ==
    \/ SetBaseLayer
    \/ SetActiveLayer
    \/ AddShapeLayer
    \/ FinalizeAddText
    \/ CopyActiveLayer
    \/ PasteLayer
    \/ DuplicateActiveLayer
    \/ CreateMirrorLayer
    \/ ReorderActiveLayer
    \/ ReorderLayers
    \/ DeleteActiveLayer
    \/ ToggleLockActiveLayer
    \/ Undo
    \/ Redo

SpecEditor == InitEditor /\ [][NextEditor]_vars

---------------------------------------------------------------------------
(* C30: after any sequence of setBaseLayer, layer additions, pasteLayer,   *)
(* duplicateActiveLayer, createMirrorLayer, reorderActiveLayer, drops of   *)
(* reorderLayers on layers other than the base, deleteActiveLayer,         *)
(* toggleLockActiveLayer, undo and redo, at most one layer has isBase, and *)
(* that layer is first in layers and locked.                               *)

C30_BaseLayerFirst ==
    \A i \in DOMAIN layers :
        layers[i].isBase =>
            /\ i = 1
            /\ layers[i].locked
            /\ \A j \in DOMAIN layers : layers[j].isBase => j = i

\* what holds: at most one layer has isBase, and it is the layer
\* setBaseLayer added, locked
C30_BaseLayerKept ==
    \A i \in DOMAIN layers :
        layers[i].isBase =>
            /\ layers[i] = BaseLayer
            /\ \A j \in DOMAIN layers : layers[j].isBase => j = i

\* what holds: a base layer leaves layers only by undo and redo, the steps
\* that move historyIndex and leave history alone
C30_BaseLayerStays ==
    [][(findBase(layers) # 0 /\ ~(history' = history /\ historyIndex' # historyIndex))
          => findBase(layers') # 0]_vars

---------------------------------------------------------------------------
(* A session of the pen tool, every operation of which calls saveState: a  *)
(* click with no unlocked path layer active creates one, a click on its    *)
(* first point closes the path, any other click adds a point to an open    *)
(* path, and the release of a dragged point or handle saves again.  The    *)
(* points themselves are not held.                                         *)

\* the position of the active layer when it is an unlocked path layer, else 0
ActivePath ==
    LET i == findIndex(layers, activeLayerId)
    IN IF i # 0 /\ layers[i].type = "path" /\ ~layers[i].locked THEN i ELSE 0

\* onMouseDown, pen tool, no active path: createPathLayer(pt)
PenCreatePath ==
    /\ ActivePath = 0
    /\ \E t \in Times :
        LET ls == Append(layers, NewLayer(t, "path"))
            saved == saveState(history, historyIndex, ls)
        IN /\ layers' = ls
           /\ history' = saved.history
           /\ historyIndex' = saved.historyIndex
           /\ activeLayerId' = t
           /\ now' = t
    /\ UNCHANGED <<clipboard, ops>>
    /\ UNCHANGED <<buffer, pc, header, error, result, x, y, offset, rgba, wlog, oob, reads,
                   imageData, dataIndex, sessionVars, importVars>>

\* onMouseDown, pen tool, on the first point of the open active path:
\* activeLayer.closed = true; saveState()
PenClosePath ==
    /\ ActivePath # 0
    /\ ~layers[ActivePath].closed
    /\ LET ls == [layers EXCEPT ![ActivePath].closed = TRUE]
           saved == saveState(history, historyIndex, ls)
       IN /\ layers' = ls
          /\ history' = saved.history
          /\ historyIndex' = saved.historyIndex
    /\ UNCHANGED <<activeLayerId, clipboard, now, ops>>
    /\ UNCHANGED <<buffer, pc, header, error, result, x, y, offset, rgba, wlog, oob, reads,
                   imageData, dataIndex, sessionVars, importVars>>

\* onMouseDown, pen tool, elsewhere, the active path open: a point is added
\* or inserted; saveState()
PenAddPoint ==
    /\ ActivePath # 0
    /\ ~layers[ActivePath].closed
    /\ LET saved == saveState(history, historyIndex, layers)
       IN /\ history' = saved.history
          /\ historyIndex' = saved.historyIndex
    /\ UNCHANGED <<layers, activeLayerId, clipboard, now, ops>>
    /\ UNCHANGED <<buffer, pc, header, error, result, x, y, offset, rgba, wlog, oob, reads,
                   imageData, dataIndex, sessionVars, importVars>>

\* onMouseUp after a point or handle of the active path was dragged:
\* saveState()
PointDragEnd ==
    /\ ActivePath # 0
    /\ LET saved == saveState(history, historyIndex, layers)
       IN /\ history' = saved.history
          /\ historyIndex' = saved.historyIndex
    /\ UNCHANGED <<layers, activeLayerId, clipboard, now, ops>>
    /\ UNCHANGED <<buffer, pc, header, error, result, x, y, offset, rgba, wlog, oob, reads,
                   imageData, dataIndex, sessionVars, importVars>>

NextHistory ==
    \/ PenCreatePath
    \/ PenClosePath
    \/ PenAddPoint
    \/ PointDragEnd
    \/ Undo
    \/ Redo

SpecHistory == InitEditor /\ [][NextHistory]_vars

---------------------------------------------------------------------------
(* C27: after any sequence of saveState, undo and redo, history holds at   *)
(* most maxHistory (50) states, historyIndex is -1 exactly when history is *)
(* empty and otherwise a position of history (0 .. length - 1), and undo   *)
(* at index 0 (or -1) and redo at the last index change nothing.           *)

C27_HistoryBounds ==
    /\ Len(history) <= 50
    /\ historyIndex = -1 <=> history = << >>
    /\ history # << >> => (0 <= historyIndex /\ historyIndex <= Len(history) - 1)
    /\ historyIndex <= 0 => ~ENABLED Undo
    /\ historyIndex >= Len(history) - 1 => ~ENABLED Redo

\* the history is full and every state of it has been undone
C27_Witness ==
    /\ Len(history) = 50
    /\ historyIndex = 0
    /\ history[1].layers[1].closed

---------------------------------------------------------------------------
(* C28: every step that changes history (a saveState) ends with            *)
(* historyIndex = history.length - 1, also when the oldest state was       *)
(* dropped, so that no state is left to redo; and every step that moves    *)
(* historyIndex and leaves history alone (an undo or a redo) moves it by   *)
(* one and makes layers the layers of the state at the new index, so that  *)
(* an undo followed by a redo restores the state that was current.         *)

C28_RedoDiscarded ==
    [][/\ history' # history => historyIndex' = Len(history') - 1
       /\ (history' = history /\ historyIndex' # historyIndex) =>
            /\ historyIndex' \in {historyIndex - 1, historyIndex + 1}
            /\ layers' = history[historyIndex' + 1].layers]_vars

\* the history is full and its oldest states were dropped: the first state
\* ever saved, of an open path, is no longer in it
C28_Witness ==
    /\ Len(history) = 50
    /\ historyIndex = 49
    /\ history[1].layers[1].closed
    /\ layers = history[50].layers

===========================================================================
